---- MODULE Spec2Model ----
(***************************************************************************)
(* The google_dataproc_cluster resource: its Create, Read, Update and      *)
(* Delete entry points (resource_dataproc_cluster.go) run against the      *)
(* Dataproc and Storage services.                                          *)
(*                                                                         *)
(* Every entry point runs to completion on the calling thread, so each is  *)
(* one action.  What the services answer is drawn with \E; what the entry  *)
(* point did is left in:                                                   *)
(*   id     the stored id (d.Id()), "" when nothing is tracked             *)
(*   st     the stored attributes (d), EmptySt when nothing is tracked     *)
(*   pc     the cluster of this name as the Dataproc service holds it      *)
(*   bk     the staging buckets as the Storage service holds them          *)
(*   op     the entry point that ran last                                  *)
(*   req    the desired configuration it was given                         *)
(*   diff   the attributes the plan found changed (d.HasChange)            *)
(*   ret    what it returned: "ok", an error, or how the process ended     *)
(*   calls  the service calls and SetId calls it made, in order            *)
(*   patch  the update mask and partial payload of its Patch call          *)
(*                                                                         *)
(* The functions the entry points are made of (the translation of the      *)
(* configuration, the flattening of the service's answer, the decoding of  *)
(* durations, the validation of names) are operators; they are also run on *)
(* their own, on inputs drawn from small sets:                             *)
(*   input   the function and the arguments it is given                    *)
(*   output  what it returned, Pending before it ran                       *)
(***************************************************************************)
EXTENDS Integers, Sequences, FiniteSets, TLC

VARIABLES id, st, pc, bk, op, req, diff, ret, calls, patch, input, output

vars == <<id, st, pc, bk, op, req, diff, ret, calls, patch, input, output>>

(***************************************************************************)
(* Bounds of the model.                                                    *)
(***************************************************************************)
\* Objects the service stages in an auto-generated bucket.
MaxObjects == 2
\* Objects one Objects.List answer holds (the service's page).
PageSize == 1
\* Rate-limited Buckets.Delete attempts that fit in resource.Retry's minute.
MaxRetries == 1

(***************************************************************************)
(* Names and values.                                                       *)
(***************************************************************************)
ClusterName == "dproc-cluster-test"
AutogenBucket == "dataproc-autogen-bucket"
UserBucket == "user-staging-bucket"
BucketNames == {AutogenBucket, UserBucket}

GlobalRegion == "global"
Regions == {GlobalRegion, "us-central1"}
Zones == {"", "us-central1-a"}
LabelSets == {{}, {"env=prod"}}
MasterCounts == {1, 3}
WorkerCounts == {2, 3}
PreemptibleCounts == {0, 1}

\* What an entry point returns.
Ok == "ok"
ErrProject == "project: required field is not set"
ErrZoneMandatory == "zone is mandatory when region is set to 'global'"
ErrSubmit == "provider rejected the call"
ErrAlreadyExists == "provider: cluster already exists"
ErrOpFailed == "operation failed"
ErrTimeout == "timeout while waiting for operation"
ErrRead == "error reading cluster"
ErrObjectDelete == "error deleting object"
ErrBucketDelete == "error deleting bucket"
\* The process ended instead of returning.
Exited == "process exited (log.Fatalf)"
Panicked == "panic: nil pointer dereference"

Errors ==
    {ErrProject, ErrZoneMandatory, ErrSubmit, ErrAlreadyExists, ErrOpFailed,
     ErrTimeout, ErrRead, ErrObjectDelete, ErrBucketDelete}
Crashes == {Exited, Panicked}

Call(api, arg, res) == [api |-> api, arg |-> arg, res |-> res]

\* Nothing stored: the state of a resource with an empty id.
EmptySt ==
    [region |-> "", labels |-> {}, delAutogen |-> FALSE, staging |-> "",
     bucket |-> "", masters |-> 0, workers |-> 0, preempt |-> 0]

\* No cluster of this name at the service.
AbsentPc ==
    [status |-> "ABSENT", labels |-> {}, bucket |-> "",
     masters |-> 0, workers |-> 0, preempt |-> 0]

NoReq ==
    [region |-> "", hasCC |-> FALSE, hasGce |-> FALSE, zone |-> "",
     staging |-> "", delAutogen |-> FALSE, labels |-> {},
     masters |-> 0, workers |-> 0, preempt |-> 0]

\* No function is run on its own; a function that has not returned.
NoInput == [fn |-> "none"]
Pending == [done |-> FALSE]

NoPatch == [sent |-> FALSE, mask |-> "", labels |-> <<>>, worker |-> <<>>, secondary |-> <<>>]

(***************************************************************************)
(* The outcomes of waiting on a long-running operation.                    *)
(***************************************************************************)
WaitOutcomes == {"ok", "failed", "timeout"}

WaitError(w) == IF w = "failed" THEN ErrOpFailed ELSE ErrTimeout

(***************************************************************************)
(* The Dataproc service.                                                   *)
(***************************************************************************)
\* What Clusters.Create answers: a name in use is refused.
CreateResponses(pcIn) ==
    IF pcIn.status = "ABSENT" THEN {"accepted", "error"} ELSE {"conflict", "error"}

\* What Clusters.Get answers.
GetResponses(pcIn) ==
    IF pcIn.status = "ABSENT" THEN {"notfound", "error"} ELSE {"ok", "error"}

\* The cluster the service holds once it accepted Clusters.Create.
ProviderCluster(payload, status) ==
    [status |-> status,
     labels |-> payload.labels,
     bucket |-> IF payload.configBucket # "" THEN payload.configBucket ELSE AutogenBucket,
     masters |-> payload.masters,
     workers |-> payload.workers,
     preempt |-> payload.preempt]

\* The buckets once the service accepted Clusters.Create: without a
\* ConfigBucket it allocates the auto-generated one, which then holds n
\* staged objects.
ProviderBuckets(bkIn, payload, n) ==
    IF payload.configBucket # "" THEN bkIn
    ELSE [bkIn EXCEPT ![AutogenBucket] = [exists |-> TRUE, objs |-> n]]

\* The numbers of objects the service may have staged.
StagedObjects(payload) == IF payload.configBucket # "" THEN {0} ELSE 0..MaxObjects

(***************************************************************************)
(* Create: the payload.                                                    *)
(***************************************************************************)
\* The outer zok of Create when the zone check is reached.  It is declared
\* false and never assigned: "zone, zok := cfg[...]" declares a new zok in
\* the inner block.
OuterZok(r) == FALSE

ZoneCheckSkipped(r) == FALSE

\* region == "global" && !zok
ZoneCheckFails(r) == r.region = GlobalRegion /\ ~OuterZok(r)

\* The dataproc.Cluster Create builds from the configuration.
TranslateCluster(r) ==
    [labels |-> r.labels,
     configBucket |-> IF r.hasCC THEN r.staging ELSE "",
     zoneUri |-> IF r.hasCC /\ r.hasGce THEN r.zone ELSE "",
     masters |-> r.masters,
     workers |-> r.workers,
     preempt |-> r.preempt]

(***************************************************************************)
(* Read.                                                                   *)
(***************************************************************************)
\* The attributes Read sets from the cluster the service returned; the
\* cluster_config map it fills starts from the one d already holds.
ReflectCluster(base, cluster) ==
    [region |-> base.region,
     labels |-> cluster.labels,
     delAutogen |-> base.delAutogen,
     staging |-> base.staging,
     bucket |-> cluster.bucket,
     masters |-> cluster.masters,
     workers |-> cluster.workers,
     preempt |-> cluster.preempt]

\* d as an entry point sees it when it is given configuration r.
ConfigView(r) ==
    [region |-> r.region, labels |-> r.labels,
     delAutogen |-> r.hasCC /\ r.delAutogen,
     staging |-> IF r.hasCC THEN r.staging ELSE "",
     bucket |-> "", masters |-> r.masters, workers |-> r.workers,
     preempt |-> r.preempt]

\* handleNotFoundError: a 404 drops the resource and is no error.
handleNotFoundError(idIn, g) ==
    IF g = "notfound" THEN [id |-> "", ret |-> Ok] ELSE [id |-> idIn, ret |-> ErrRead]

\* Read once Clusters.Get answered g.
ReadAnswered(idIn, base, cluster, g) ==
    IF g # "ok" THEN
        LET h == handleNotFoundError(idIn, g) IN
        [id |-> h.id, st |-> IF h.id = "" THEN EmptySt ELSE base, ret |-> h.ret,
         calls |-> <<Call("Clusters.Get", ClusterName, g)>>]
    ELSE
        [id |-> idIn, st |-> ReflectCluster(base, cluster), ret |-> Ok,
         calls |-> <<Call("Clusters.Get", ClusterName, g)>>]

\* resourceDataprocClusterRead on d = (idIn, base), the service holding
\* cluster: every way it can end.
resourceDataprocClusterRead(idIn, base, cluster, projOk) ==
    IF ~projOk THEN
        {[id |-> idIn, st |-> base, ret |-> ErrProject, calls |-> <<>>]}
    ELSE
        {ReadAnswered(idIn, base, cluster, g) : g \in GetResponses(cluster)}

(***************************************************************************)
(* Create.                                                                 *)
(***************************************************************************)
IdKeptAfterWait(name, w) == name

\* The id Create leaves once the wait on the create operation ended.
IdAfterCreateWait(name, w) == IF w = "ok" THEN name ELSE ""

\* Create once the service accepted Clusters.Create, staged n objects and
\* the wait ended w.
CreateWaited(r, w, n) ==
    LET payload == TranslateCluster(r)
        bk1 == ProviderBuckets(bk, payload, n)
        head == <<Call("Clusters.Create", ClusterName, "accepted"),
                  Call("SetId", ClusterName, ""),
                  Call("Wait", "create", w)>>
        id1 == IdAfterCreateWait(ClusterName, w)
    IN
    IF w # "ok" THEN
        {[id |-> id1, st |-> IF id1 = "" THEN EmptySt ELSE ConfigView(r),
          pc |-> ProviderCluster(payload, IF w = "failed" THEN "ERROR" ELSE "CREATING"),
          bk |-> bk1, ret |-> WaitError(w),
          calls |-> IF id1 = "" THEN Append(head, Call("SetId", "", "")) ELSE head]}
    ELSE
        LET pc1 == ProviderCluster(payload, "RUNNING") IN
        {[id |-> rd.id, st |-> rd.st, pc |-> pc1, bk |-> bk1, ret |-> rd.ret,
          calls |-> head \o rd.calls] :
            rd \in resourceDataprocClusterRead(id1, ConfigView(r), pc1, TRUE)}

\* Create once Clusters.Create answered resp.
CreateSubmitted(r, resp) ==
    IF resp # "accepted" THEN
        {[id |-> id, st |-> st, pc |-> pc, bk |-> bk,
          ret |-> IF resp = "conflict" THEN ErrAlreadyExists ELSE ErrSubmit,
          calls |-> <<Call("Clusters.Create", ClusterName, resp)>>]}
    ELSE
        UNION {CreateWaited(r, w, n) :
                   w \in WaitOutcomes, n \in StagedObjects(TranslateCluster(r))}

\* resourceDataprocClusterCreate on configuration r: every way it can end.
resourceDataprocClusterCreate(r, projOk) ==
    IF ~projOk THEN
        {[id |-> id, st |-> st, pc |-> pc, bk |-> bk, ret |-> ErrProject, calls |-> <<>>]}
    ELSE IF ZoneCheckFails(r) THEN
        {[id |-> id, st |-> st, pc |-> pc, bk |-> bk, ret |-> ErrZoneMandatory,
          calls |-> <<>>]}
    ELSE
        UNION {CreateSubmitted(r, resp) : resp \in CreateResponses(pc)}

\* The configurations Create is given.  Labels and instance counts are left
\* to the service's defaults; without a cluster_config block nothing of it
\* is set.
CreateInputs ==
    {r \in [region : Regions, hasCC : BOOLEAN, hasGce : BOOLEAN, zone : Zones,
            staging : {"", UserBucket}, delAutogen : BOOLEAN, labels : {{}},
            masters : {1}, workers : {2}, preempt : {0}] :
        /\ r.hasGce => r.hasCC
        /\ r.zone # "" => r.hasGce
        /\ ~r.hasCC => (r.staging = "" /\ ~r.delAutogen)}

Create ==
    /\ id = ""
    /\ \E r \in CreateInputs, projOk \in BOOLEAN :
         \E out \in resourceDataprocClusterCreate(r, projOk) :
            /\ id' = out.id
            /\ st' = out.st
            /\ pc' = out.pc
            /\ bk' = out.bk
            /\ op' = "Create"
            /\ req' = r
            /\ diff' = {}
            /\ ret' = out.ret
            /\ calls' = out.calls
            /\ patch' = NoPatch
            /\ UNCHANGED <<input, output>>

Read ==
    /\ id # ""
    /\ \E projOk \in BOOLEAN :
         \E out \in resourceDataprocClusterRead(id, st, pc, projOk) :
            /\ id' = out.id
            /\ st' = out.st
            /\ op' = "Read"
            /\ req' = NoReq
            /\ diff' = {}
            /\ ret' = out.ret
            /\ calls' = out.calls
            /\ patch' = NoPatch
            /\ UNCHANGED <<pc, bk, input, output>>

(***************************************************************************)
(* The schema: which attributes a user sets, and which of them force a new *)
(* resource when they change.                                              *)
(***************************************************************************)
LabelsAttr == "labels"
MasterNumAttr == "cluster_config.0.master_config.0.num_instances"
WorkerNumAttr == "cluster_config.0.worker_config.0.num_instances"
PreemptNumAttr == "cluster_config.0.preemptible_worker_config.0.num_instances"
DeleteAutogenAttr == "cluster_config.0.delete_autogen_bucket"
StagingBucketAttr == "cluster_config.0.staging_bucket"

\* The attributes declared ForceNew.
ForceNewAttrs ==
    {"name", "project", "region", StagingBucketAttr,
     "cluster_config.0.gce_cluster_config.0.zone",
     "cluster_config.0.gce_cluster_config.0.network",
     "cluster_config.0.gce_cluster_config.0.subnetwork",
     "cluster_config.0.gce_cluster_config.0.tags",
     "cluster_config.0.gce_cluster_config.0.service_account",
     "cluster_config.0.gce_cluster_config.0.service_account_scopes",
     "cluster_config.0.master_config.0.machine_type",
     "cluster_config.0.master_config.0.disk_config.0.num_local_ssds",
     "cluster_config.0.master_config.0.disk_config.0.boot_disk_size_gb",
     "cluster_config.0.worker_config.0.machine_type",
     "cluster_config.0.worker_config.0.disk_config.0.num_local_ssds",
     "cluster_config.0.worker_config.0.disk_config.0.boot_disk_size_gb",
     "cluster_config.0.preemptible_worker_config.0.disk_config.0.boot_disk_size_gb",
     "cluster_config.0.software_config.0.image_version",
     "cluster_config.0.software_config.0.override_properties",
     "cluster_config.0.initialization_action",
     "cluster_config.0.initialization_action.0.script"}

\* The attributes declared without ForceNew.
InPlaceAttrs ==
    {LabelsAttr, DeleteAutogenAttr, MasterNumAttr, WorkerNumAttr, PreemptNumAttr,
     "cluster_config.0.initialization_action.0.timeout_sec"}

\* The attributes whose values this model varies.
TrackedAttrs ==
    {"region", LabelsAttr, DeleteAutogenAttr, StagingBucketAttr,
     MasterNumAttr, WorkerNumAttr, PreemptNumAttr}

\* d.Get(a) on stored or desired attributes s.
AttrValue(s, a) ==
    CASE a = "region" -> <<s.region>>
      [] a = LabelsAttr -> <<s.labels>>
      [] a = DeleteAutogenAttr -> <<s.delAutogen>>
      [] a = StagingBucketAttr -> <<s.staging>>
      [] a = MasterNumAttr -> <<s.masters>>
      [] a = WorkerNumAttr -> <<s.workers>>
      [] a = PreemptNumAttr -> <<s.preempt>>

\* d.HasChange(a): the stored and the desired value differ.
HasChange(prior, new, a) == AttrValue(prior, a) # AttrValue(new, a)

\* The attributes of the plan's diff.
ChangedAttrs(prior, new) == {a \in TrackedAttrs : HasChange(prior, new, a)}

(***************************************************************************)
(* Update.                                                                 *)
(***************************************************************************)
LabelsPath == "labels"
WorkerPath == "config.worker_config.num_instances"
SecondaryPath == "config.secondary_worker_config.num_instances"

\* strings.Join(paths, sep)
RECURSIVE Join(_, _)
Join(paths, sep) ==
    IF Len(paths) = 0 THEN ""
    ELSE IF Len(paths) = 1 THEN paths[1]
    ELSE paths[1] \o sep \o Join(Tail(paths), sep)

UpdMaskWorkerFirst(prior, new) ==
    (IF HasChange(prior, new, WorkerNumAttr) THEN <<WorkerPath>> ELSE <<>>)
    \o (IF HasChange(prior, new, LabelsAttr) THEN <<LabelsPath>> ELSE <<>>)
    \o (IF HasChange(prior, new, PreemptNumAttr) THEN <<SecondaryPath>> ELSE <<>>)

\* updMask as Update builds it.
UpdMask(prior, new) ==
    (IF HasChange(prior, new, LabelsAttr) THEN <<LabelsPath>> ELSE <<>>)
    \o (IF HasChange(prior, new, WorkerNumAttr) THEN <<WorkerPath>> ELSE <<>>)
    \o (IF HasChange(prior, new, PreemptNumAttr) THEN <<SecondaryPath>> ELSE <<>>)

\* A dataproc.Cluster that carries the three fields whatever changed.
UpdPayloadWhole(prior, new) ==
    [labels |-> <<new.labels>>, worker |-> <<new.workers>>, secondary |-> <<new.preempt>>]

\* The dataproc.Cluster Update builds: a field is set when it changed.
UpdPayload(prior, new) ==
    [labels |-> IF HasChange(prior, new, LabelsAttr) THEN <<new.labels>> ELSE <<>>,
     worker |-> IF HasChange(prior, new, WorkerNumAttr) THEN <<new.workers>> ELSE <<>>,
     secondary |-> IF HasChange(prior, new, PreemptNumAttr) THEN <<new.preempt>> ELSE <<>>]

PatchAlways(mask) == TRUE

\* len(updMask) > 0
PatchNeeded(mask) == Len(mask) > 0

\* What Clusters.Patch answers.
PatchResponses(pcIn) ==
    IF pcIn.status = "ABSENT" THEN {"error"} ELSE {"accepted", "error"}

\* The cluster once the service applied a patch: the fields the mask names
\* take the payload's values.
ApplyPatch(pcIn, mask, payload) ==
    LET named(p) == \E i \in 1..Len(mask) : mask[i] = p IN
    [pcIn EXCEPT
       !.labels = IF named(LabelsPath)
                  THEN (IF payload.labels = <<>> THEN {} ELSE payload.labels[1]) ELSE @,
       !.workers = IF named(WorkerPath)
                   THEN (IF payload.worker = <<>> THEN 0 ELSE payload.worker[1]) ELSE @,
       !.preempt = IF named(SecondaryPath)
                   THEN (IF payload.secondary = <<>> THEN 0 ELSE payload.secondary[1]) ELSE @]

\* The stored attributes as Update sees them under desired configuration r:
\* the bucket is computed, so it is the stored one.
DesiredView(prior, r) == [ConfigView(r) EXCEPT !.bucket = prior.bucket]

\* The patch Update sends.
PatchSent(mask, payload) ==
    [sent |-> TRUE, mask |-> Join(mask, ","), labels |-> payload.labels,
     worker |-> payload.worker, secondary |-> payload.secondary]

\* Update once the service accepted Clusters.Patch and the wait ended w.
UpdateWaited(new, mask, payload, w) ==
    LET head == <<Call("Clusters.Patch", ClusterName, "accepted"),
                  Call("Wait", "update", w)>>
        applied == ApplyPatch(pc, mask, payload)
    IN
    IF w # "ok" THEN
        \* The operation ended badly or is still running: the service may
        \* have applied the patch of an operation the wait gave up on.
        {[id |-> id, st |-> st, pc |-> pc1, ret |-> WaitError(w), calls |-> head,
          patch |-> PatchSent(mask, payload)] :
            pc1 \in IF w = "timeout" THEN {pc, applied} ELSE {pc}}
    ELSE
        {[id |-> rd.id, st |-> rd.st, pc |-> applied, ret |-> rd.ret,
          calls |-> head \o rd.calls, patch |-> PatchSent(mask, payload)] :
            rd \in resourceDataprocClusterRead(id, new, applied, TRUE)}

\* resourceDataprocClusterUpdate on d = (st, desired r): every way it can
\* end.
resourceDataprocClusterUpdate(r, projOk) ==
    LET new == DesiredView(st, r)
        mask == UpdMask(st, new)
        payload == UpdPayload(st, new)
    IN
    IF ~projOk THEN
        {[id |-> id, st |-> st, pc |-> pc, ret |-> ErrProject, calls |-> <<>>,
          patch |-> NoPatch]}
    ELSE IF PatchNeeded(mask) THEN
        UNION {IF resp # "accepted" THEN
                   {[id |-> id, st |-> st, pc |-> pc, ret |-> ErrSubmit,
                     calls |-> <<Call("Clusters.Patch", ClusterName, resp)>>,
                     patch |-> PatchSent(mask, payload)]}
               ELSE UNION {UpdateWaited(new, mask, payload, w) : w \in WaitOutcomes} :
               resp \in PatchResponses(pc)}
    ELSE
        {[id |-> rd.id, st |-> rd.st, pc |-> pc, ret |-> rd.ret, calls |-> rd.calls,
          patch |-> NoPatch] :
            rd \in resourceDataprocClusterRead(id, new, pc, TRUE)}

\* The configurations Update is given for the tracked resource: what was
\* stored, with other labels, instance counts or staging bucket.
UpdateInputs ==
    [region : {st.region}, hasCC : {TRUE}, hasGce : {FALSE}, zone : {""},
     staging : {"", UserBucket}, delAutogen : {st.delAutogen}, labels : LabelSets,
     masters : MasterCounts, workers : WorkerCounts, preempt : PreemptibleCounts]

\* The plan asks for Update when attributes changed and none of them is
\* ForceNew (a changed ForceNew attribute asks for Delete and Create).
PlanIsUpdate(prior, r) ==
    LET changed == ChangedAttrs(prior, DesiredView(prior, r)) IN
    changed # {} /\ changed \cap ForceNewAttrs = {}

\* Those that leave the worker counts as stored.
LabelUpdateInputs ==
    {r \in UpdateInputs : r.workers = st.workers /\ r.preempt = st.preempt}

Update(inputs) ==
    /\ id # ""
    /\ \E r \in inputs, projOk \in BOOLEAN :
         /\ PlanIsUpdate(st, r)
         /\ \E out \in resourceDataprocClusterUpdate(r, projOk) :
              /\ id' = out.id
              /\ st' = out.st
              /\ pc' = out.pc
              /\ op' = "Update"
              /\ req' = r
              /\ diff' = ChangedAttrs(st, DesiredView(st, r))
              /\ ret' = out.ret
              /\ calls' = out.calls
              /\ patch' = out.patch
              /\ UNCHANGED <<bk, input, output>>

(***************************************************************************)
(* The Storage service.                                                    *)
(***************************************************************************)
NoBucket == [exists |-> FALSE, objs |-> 0]

\* The bucket of a name; a name the service does not know has none.
BucketOf(bkIn, name) == IF name \in DOMAIN bkIn THEN bkIn[name] ELSE NoBucket

SetBucket(bkIn, name, b) == IF name \in DOMAIN bkIn THEN [bkIn EXCEPT ![name] = b] ELSE bkIn

\* What Objects.List answers: a page of objects, 404, another googleapi
\* error, or an error of another type.
ListResponses(b) ==
    IF b.exists THEN {"ok", "typedErr", "untypedErr"}
    ELSE {"notfound", "typedErr", "untypedErr"}

\* The objects one answer of Objects.List holds.
ListedItems(b) == IF b.objs > PageSize THEN PageSize ELSE b.objs

\* What Objects.Delete answers.
ObjectResponses == {"ok", "notfound", "typedErr", "untypedErr"}

\* What Buckets.Delete answers: a bucket that holds objects is refused.
BucketResponses(b) ==
    IF ~b.exists THEN {"notfound", "ratelimit", "typedErr", "untypedErr"}
    ELSE IF b.objs = 0 THEN {"ok", "ratelimit", "typedErr", "untypedErr"}
    ELSE {"ratelimit", "typedErr", "untypedErr"}

(***************************************************************************)
(* Delete: the staging bucket.                                             *)
(***************************************************************************)
\* The loop over res.Items from item i on, answers[j] the answer of
\* Objects.Delete for item j: a googleapi error other than 404 returns, any
\* other error is passed over.
RECURSIVE PurgeItems(_, _, _, _, _)
PurgeItems(name, objs, answers, i, items) ==
    IF i > items THEN [objs |-> objs, ret |-> Ok, calls |-> <<>>]
    ELSE
        LET c == Call("Objects.Delete", name, answers[i]) IN
        IF answers[i] = "typedErr" THEN
            [objs |-> objs, ret |-> ErrObjectDelete, calls |-> <<c>>]
        ELSE
            LET left == IF answers[i] \in {"ok", "notfound"} THEN objs - 1 ELSE objs
                rest == PurgeItems(name, left, answers, i + 1, items)
            IN [rest EXCEPT !.calls = <<c>> \o @]

\* deleteStorageBucketContents: every way it can end.
deleteStorageBucketContents(name, bkIn) ==
    LET b == BucketOf(bkIn, name) IN
    UNION {
        LET listed == <<Call("Objects.List", name, l)>> IN
        IF l = "notfound" THEN {[bk |-> bkIn, ret |-> Ok, calls |-> listed]}
        ELSE IF l # "ok" THEN {[bk |-> bkIn, ret |-> Exited, calls |-> listed]}
        ELSE
            {LET p == PurgeItems(name, b.objs, answers, 1, ListedItems(b)) IN
             [bk |-> SetBucket(bkIn, name, [b EXCEPT !.objs = p.objs]),
              ret |-> p.ret, calls |-> listed \o p.calls] :
                answers \in [1..ListedItems(b) -> ObjectResponses]} :
        l \in ListResponses(b)}

\* One attempt of deleteEmptyBucket's retried function on answer a:
\* "done", "retry", or the error it ends with.
BucketAttempt(a) ==
    CASE a = "ok" -> "done"
      [] a = "untypedErr" -> Panicked
      [] a = "notfound" -> "done"
      [] a = "ratelimit" -> "retry"
      [] OTHER -> ErrBucketDelete

\* resource.Retry from attempt n on: every way it can end.
RECURSIVE RetryBucketDelete(_, _, _)
RetryBucketDelete(name, bkIn, n) ==
    LET b == BucketOf(bkIn, name) IN
    UNION {
        LET c == <<Call("Buckets.Delete", name, a)>>
            r == BucketAttempt(a)
        IN
        IF r = "done" THEN
            {[bk |-> IF a = "ok" THEN SetBucket(bkIn, name, NoBucket) ELSE bkIn,
              ret |-> Ok, calls |-> c]}
        ELSE IF r = "retry" THEN
            IF n > MaxRetries THEN {[bk |-> bkIn, ret |-> ErrBucketDelete, calls |-> c]}
            ELSE {[e EXCEPT !.calls = c \o @] : e \in RetryBucketDelete(name, bkIn, n + 1)}
        ELSE {[bk |-> bkIn, ret |-> r, calls |-> c]} :
        a \in BucketResponses(b)}

\* deleteEmptyBucket: every way it can end.
deleteEmptyBucket(name, bkIn) == RetryBucketDelete(name, bkIn, 1)

\* emptyAndDeleteStorageBucket: every way it can end.
emptyAndDeleteStorageBucket(name, bkIn) ==
    UNION {
        IF c.ret # Ok THEN {c}
        ELSE {[e EXCEPT !.calls = c.calls \o @] : e \in deleteEmptyBucket(name, c.bk)} :
        c \in deleteStorageBucketContents(name, bkIn)}

CleanupIgnoringStagingBucket(stIn, bkIn) == emptyAndDeleteStorageBucket(stIn.bucket, bkIn)

\* deleteAutogenBucketIfExists: every way it can end.
deleteAutogenBucketIfExists(stIn, bkIn) ==
    IF stIn.staging # "" THEN {[bk |-> bkIn, ret |-> Ok, calls |-> <<>>]}
    ELSE emptyAndDeleteStorageBucket(stIn.bucket, bkIn)

(***************************************************************************)
(* Delete.                                                                 *)
(***************************************************************************)
\* What Clusters.Delete answers.
DeleteResponses(pcIn) ==
    IF pcIn.status = "ABSENT" THEN {"error"} ELSE {"accepted", "error"}

IdClearedOnceSubmitted(idIn, w) == ""

\* The id Delete leaves once the wait on the delete operation ended.
IdAfterDeleteWait(idIn, w) == IF w = "ok" THEN "" ELSE idIn

\* Delete once the staging-bucket step ended well with buckets bk1 and
\* calls head.
DeleteCluster(bk1, head) ==
    UNION {
        LET submitted == head \o <<Call("Clusters.Delete", ClusterName, resp)>> IN
        IF resp # "accepted" THEN
            {[id |-> id, st |-> st, pc |-> pc, bk |-> bk1, ret |-> ErrSubmit,
              calls |-> submitted]}
        ELSE
            {LET id1 == IdAfterDeleteWait(id, w) IN
             [id |-> id1,
              st |-> IF id1 = "" THEN EmptySt ELSE st,
              pc |-> CASE w = "ok" -> AbsentPc
                       [] w = "failed" -> pc
                       [] OTHER -> [pc EXCEPT !.status = "DELETING"],
              bk |-> bk1,
              ret |-> IF w = "ok" THEN Ok ELSE WaitError(w),
              calls |-> submitted \o <<Call("Wait", "delete", w)>>
                        \o (IF id1 = "" THEN <<Call("SetId", "", "")>> ELSE <<>>)] :
                w \in WaitOutcomes} :
        resp \in DeleteResponses(pc)}

\* resourceDataprocClusterDelete on d = (id, st): every way it can end.
resourceDataprocClusterDelete(projOk) ==
    IF ~projOk THEN
        {[id |-> id, st |-> st, pc |-> pc, bk |-> bk, ret |-> ErrProject, calls |-> <<>>]}
    ELSE IF st.delAutogen THEN
        UNION {
            IF c.ret # Ok THEN
                {[id |-> id, st |-> st, pc |-> pc, bk |-> c.bk, ret |-> c.ret,
                  calls |-> c.calls]}
            ELSE DeleteCluster(c.bk, c.calls) :
            c \in deleteAutogenBucketIfExists(st, bk)}
    ELSE DeleteCluster(bk, <<>>)

Delete ==
    /\ id # ""
    /\ \E projOk \in BOOLEAN :
         \E out \in resourceDataprocClusterDelete(projOk) :
            /\ id' = out.id
            /\ st' = out.st
            /\ pc' = out.pc
            /\ bk' = out.bk
            /\ op' = "Delete"
            /\ req' = NoReq
            /\ diff' = {}
            /\ ret' = out.ret
            /\ calls' = out.calls
            /\ patch' = NoPatch
            /\ UNCHANGED <<input, output>>

(***************************************************************************)
(* The specifications.                                                     *)
(***************************************************************************)
InitBuckets ==
    [b \in BucketNames |->
        IF b = UserBucket THEN [exists |-> TRUE, objs |-> 1] ELSE NoBucket]

\* Nothing is tracked and the service holds no cluster of the name.
Init ==
    /\ id = ""
    /\ st = EmptySt
    /\ pc = AbsentPc
    /\ bk = InitBuckets
    /\ op = "none"
    /\ req = NoReq
    /\ diff = {}
    /\ ret = Ok
    /\ calls = <<>>
    /\ patch = NoPatch
    /\ input = NoInput
    /\ output = Pending

\* The life of a resource: created, refreshed, relabelled, deleted, created
\* again.
Next == Create \/ Read \/ Update(LabelUpdateInputs) \/ Delete

Spec == Init /\ [][Next]_vars

\* A tracked cluster as a successful Create and Read leave it, with any of
\* the labels and instance counts an earlier Update can have given it.
InitTracked ==
    \E labels \in LabelSets, workers \in WorkerCounts, preempt \in PreemptibleCounts :
        LET cluster == [status |-> "RUNNING", labels |-> labels,
                        bucket |-> AutogenBucket,
                        masters |-> 1, workers |-> workers, preempt |-> preempt]
            base == [EmptySt EXCEPT !.region = "us-central1"]
        IN
        /\ id = ClusterName
        /\ st = ReflectCluster(base, cluster)
        /\ pc = cluster
        /\ bk = [InitBuckets EXCEPT ![AutogenBucket] =
                                       [exists |-> TRUE, objs |-> MaxObjects]]
        /\ op = "none"
        /\ req = NoReq
        /\ diff = {}
        /\ ret = Ok
        /\ calls = <<>>
        /\ patch = NoPatch
        /\ input = NoInput
        /\ output = Pending

\* A tracked resource: updated in place and refreshed.
NextTracked == Update(UpdateInputs) \/ Read

SpecTracked == InitTracked /\ [][NextTracked]_vars

(***************************************************************************)
(* What is read off the trace of the entry point that ran last.            *)
(***************************************************************************)
\* The positions of the calls to api in cs.
CallsTo(cs, api) == {i \in 1..Len(cs) : cs[i].api = api}

\* The positions of the calls to api that were answered res.
CallsAnswered(cs, api, res) == {i \in CallsTo(cs, api) : cs[i].res = res}

\* The positions of the d.SetId(name) calls.
SetIdCalls(cs, name) == {i \in CallsTo(cs, "SetId") : cs[i].arg = name}

\* The waits that ended in an error.
FailedWaits(cs) == {i \in CallsTo(cs, "Wait") : cs[i].res # "ok"}

\* No zone reaches the payload: no cluster_config, no gce_cluster_config, or
\* one without a zone.
NoZoneSupplied(r) == TranslateCluster(r).zoneUri = ""

(***************************************************************************)
(* Create.                                                                 *)
(***************************************************************************)
\* C1: a Create with region "global" and no zone supplied ends with no call
\* made to the service and no id recorded, and what it returns is the error
\* 'zone is mandatory when region is set to 'global'' (once the project is
\* resolved, which comes first).
C1_GlobalWithoutZoneRejected ==
    (op = "Create" /\ req.region = GlobalRegion /\ NoZoneSupplied(req)) =>
        /\ calls = <<>>
        /\ id = ""
        /\ ret \in {ErrZoneMandatory, ErrProject}

\* A Create with region "global" and no cluster_config was refused for the
\* missing zone.
C1_Witness ==
    /\ op = "Create"
    /\ req.region = GlobalRegion
    /\ ~req.hasCC
    /\ ret = ErrZoneMandatory
    /\ id = ""

\* C2: Create records the id only after the service accepted Clusters.Create;
\* when the wait on the operation ends in an error, Create returns that
\* error, the id is empty and Read did not run (no Clusters.Get).
C2_IdOnlyWhileCreateStands ==
    op = "Create" =>
        /\ \A i \in SetIdCalls(calls, ClusterName) :
               \E j \in CallsAnswered(calls, "Clusters.Create", "accepted") : j < i
        /\ id # "" => CallsAnswered(calls, "Clusters.Create", "accepted") # {}
        /\ \A i \in FailedWaits(calls) :
               /\ id = ""
               /\ ret = WaitError(calls[i].res)
               /\ CallsTo(calls, "Clusters.Get") = {}

\* A Create recorded the id, timed out waiting and cleared the id again.
C2_Witness ==
    /\ op = "Create"
    /\ SetIdCalls(calls, ClusterName) # {}
    /\ \E i \in FailedWaits(calls) : calls[i].res = "timeout"
    /\ id = ""
    /\ ret = ErrTimeout

\* C3: a Create that follows a Create of the same configuration whose wait
\* timed out is not refused for what the first one left at the service.
C3_RetryAfterTimeoutIsClean ==
    [][(op = "Create" /\ ret = ErrTimeout /\ op' = "Create" /\ req' = req)
           => ret' # ErrAlreadyExists]_vars

(***************************************************************************)
(* Update and Delete: the stored id.                                       *)
(***************************************************************************)
\* C4: an Update or a Delete that returns an error leaves the stored id as it
\* was before the call.
C4_ErrorKeepsId ==
    [][(op' \in {"Update", "Delete"} /\ ret' \in Errors) => id' = id]_vars

\* A Delete was submitted, its wait ended in an error, and the id is still
\* the cluster's.
C4_Witness ==
    /\ op = "Delete"
    /\ CallsAnswered(calls, "Clusters.Delete", "accepted") # {}
    /\ FailedWaits(calls) # {}
    /\ ret \in {ErrOpFailed, ErrTimeout}
    /\ id = ClusterName

\* Delete submitted Clusters.Delete and the wait on its operation ended
\* without error.
DeleteCompleted ==
    /\ CallsAnswered(calls, "Clusters.Delete", "accepted") # {}
    /\ CallsAnswered(calls, "Wait", "ok") # {}

\* C5: Delete clears the stored id exactly when Clusters.Delete was
\* submitted and the wait ended without error; in every other outcome it
\* returns an error and the id stays set.
C5_DeleteOutcomes ==
    op = "Delete" =>
        /\ id = "" <=> DeleteCompleted
        /\ DeleteCompleted => ret = Ok
        /\ ~DeleteCompleted => (ret \in Errors /\ id # "")

(***************************************************************************)
(* Update: the patch.                                                      *)
(***************************************************************************)
\* The attributes the spec makes eligible for an in-place patch.
EligibleAttrs == {LabelsAttr, WorkerNumAttr, PreemptNumAttr}

\* The patch of the last Update carries the new value of attribute a.
PatchCarries(a) ==
    /\ patch.sent
    /\ CASE a = LabelsAttr -> patch.labels # <<>>
         [] a = WorkerNumAttr -> patch.worker # <<>>
         [] a = PreemptNumAttr -> patch.secondary # <<>>
         [] OTHER -> FALSE

\* C6: every attribute a user can change either forces replacement or is
\* carried by the patch: an Update that reaches the service leaves no
\* changed attribute out of what it sends.
C6_ChangeIsPatchedOrReplaces ==
    (op = "Update" /\ ret # ErrProject) =>
        \A a \in diff : a \in ForceNewAttrs \/ PatchCarries(a)

ExpectedMask(d) ==
    CASE d = {} -> ""
      [] d = {LabelsAttr} -> "labels"
      [] d = {WorkerNumAttr} -> "config.worker_config.num_instances"
      [] d = {PreemptNumAttr} -> "config.secondary_worker_config.num_instances"
      [] d = {LabelsAttr, WorkerNumAttr} -> "labels,config.worker_config.num_instances"
      [] d = {LabelsAttr, PreemptNumAttr} ->
             "labels,config.secondary_worker_config.num_instances"
      [] d = {WorkerNumAttr, PreemptNumAttr} ->
             "config.worker_config.num_instances,config.secondary_worker_config.num_instances"
      [] OTHER ->
             "labels,config.worker_config.num_instances,config.secondary_worker_config.num_instances"

\* C8: the update mask Update sends names exactly the eligible attributes
\* that changed, each once, in the order labels, worker count,
\* secondary-worker count, joined by commas; with none changed nothing is
\* sent.
C8_MaskInFixedOrder ==
    (op = "Update" /\ ret # ErrProject) =>
        /\ patch.sent <=> diff \cap EligibleAttrs # {}
        /\ patch.mask = ExpectedMask(diff \cap EligibleAttrs)

\* An Update changed all three eligible attributes and sent the three paths
\* in order.
C8_Witness ==
    /\ op = "Update"
    /\ EligibleAttrs \subseteq diff
    /\ patch.sent
    /\ patch.mask =
         "labels,config.worker_config.num_instances,config.secondary_worker_config.num_instances"

(***************************************************************************)
(* Delete: the staging bucket.                                             *)
(***************************************************************************)
StorageApis == {"Objects.List", "Objects.Delete", "Buckets.Delete"}

\* The positions of the calls to the Storage service.
StorageCalls(cs) == {i \in 1..Len(cs) : cs[i].api \in StorageApis}

\* C9: in Delete every call of the bucket cleanup comes before
\* Clusters.Delete, and a Delete whose cleanup failed (it made storage calls
\* and never reached Clusters.Delete) returns the cleanup's error.
C9_CleanupFailureIsReturned ==
    op = "Delete" =>
        /\ \A i \in StorageCalls(calls), j \in CallsTo(calls, "Clusters.Delete") : i < j
        /\ (StorageCalls(calls) # {} /\ CallsTo(calls, "Clusters.Delete") = {}) =>
               ret \in {ErrObjectDelete, ErrBucketDelete}

\* C10: a Delete of a cluster with a staging_bucket of the user's, or with
\* delete_autogen_bucket false, makes no call to the Storage service and
\* leaves every bucket as it was; no Delete touches the user's bucket.
C10_UserBucketLeftAlone ==
    [][op' = "Delete" =>
           /\ (st.staging # "" \/ ~st.delAutogen) =>
                  (StorageCalls(calls') = {} /\ bk' = bk)
           /\ bk'[UserBucket] = bk[UserBucket]]_vars

\* A Delete of a cluster with delete_autogen_bucket true and a staging_bucket
\* of the user's went on to Clusters.Delete without a storage call (its wait
\* timed out, so the stored attributes are still there to see).
C10_Witness ==
    /\ op = "Delete"
    /\ st.staging = UserBucket
    /\ st.delAutogen
    /\ StorageCalls(calls) = {}
    /\ CallsAnswered(calls, "Clusters.Delete", "accepted") # {}
    /\ bk[UserBucket].exists

\* The cleanup of the last Delete ran and reported success: it called the
\* Storage service and Delete went on to Clusters.Delete.
CleanupSucceeded(cs) == StorageCalls(cs) # {} /\ CallsTo(cs, "Clusters.Delete") # {}

\* The Objects.Delete calls after which the object is gone.
ObjectsGone(cs) ==
    CallsAnswered(cs, "Objects.Delete", "ok") \cup CallsAnswered(cs, "Objects.Delete", "notfound")

\* C11: when the cleanup of the cluster's auto-generated bucket reports
\* success, every object the bucket held was deleted or already gone before
\* Buckets.Delete was called, and afterwards the bucket does not exist.
C11_CleanupSuccessMeansBucketGone ==
    [][(op' = "Delete" /\ pc.bucket = AutogenBucket /\ CleanupSucceeded(calls')) =>
           /\ bk[AutogenBucket].exists =>
                  \A j \in CallsTo(calls', "Buckets.Delete") :
                      Cardinality({i \in ObjectsGone(calls') : i < j})
                          = bk[AutogenBucket].objs
           /\ ~bk'[AutogenBucket].exists]_vars

(***************************************************************************)
(* Durations.  A string is the sequence of its characters; a duration is   *)
(* kept in milliseconds (time.Duration counts nanoseconds: the units below *)
(* a millisecond have no letter in Alphabet).                              *)
(***************************************************************************)
\* The longest string tried.
MaxLen == 3
\* The largest timeout_sec tried.
MaxSeconds == 130

DigitChars == <<"0", "1", "2", "3", "4", "5", "6", "7", "8", "9">>

IsDigit(c) == \E i \in 1..10 : DigitChars[i] = c

DigitVal(c) == (CHOOSE i \in 1..10 : DigitChars[i] = c) - 1

\* strconv.Itoa(n)
RECURSIVE Itoa(_)
Itoa(n) ==
    IF n < 0 THEN <<"-">> \o Itoa(0 - n)
    ELSE IF n < 10 THEN <<DigitChars[n + 1]>>
    ELSE Itoa(n \div 10) \o <<DigitChars[(n % 10) + 1]>>

\* A numeral without its leading zeros.
RECURSIVE StripZeros(_)
StripZeros(ds) == IF Len(ds) > 0 /\ ds[1] = "0" THEN StripZeros(Tail(ds)) ELSE ds

\* The number a numeral writes.
RECURSIVE NumeralValue(_)
NumeralValue(ds) ==
    IF Len(ds) = 0 THEN 0
    ELSE 10 * NumeralValue(SubSeq(ds, 1, Len(ds) - 1)) + DigitVal(ds[Len(ds)])

\* a > b for two numerals of the same length.
RECURSIVE DigitsGreater(_, _)
DigitsGreater(a, b) ==
    IF Len(a) = 0 THEN FALSE
    ELSE IF a[1] # b[1] THEN DigitVal(a[1]) > DigitVal(b[1])
    ELSE DigitsGreater(Tail(a), Tail(b))

\* a > b for two numerals: the numbers they write may exceed what the
\* model's integers hold.
NumeralGreater(a, b) ==
    LET x == StripZeros(a)
        y == StripZeros(b)
    IN IF Len(x) # Len(y) THEN Len(x) > Len(y) ELSE DigitsGreater(x, y)

\* The length of the longest prefix of s made of digits.
RECURSIVE DigitRun(_)
DigitRun(s) == IF Len(s) > 0 /\ IsDigit(s[1]) THEN 1 + DigitRun(Tail(s)) ELSE 0

\* The length of the longest prefix of s that holds no digit and no '.'.
RECURSIVE UnitRun(_)
UnitRun(s) ==
    IF Len(s) > 0 /\ ~IsDigit(s[1]) /\ s[1] # "." THEN 1 + UnitRun(Tail(s)) ELSE 0

\* time's unitMap, in milliseconds.
UnitNames == {<<"m", "s">>, <<"s">>, <<"m">>, <<"h">>}

\* Every unit taken for the second.
UnitMillisOfSecond(u) == 1000

UnitMillis(u) ==
    CASE u = <<"m", "s">> -> 1
      [] u = <<"s">> -> 1000
      [] u = <<"m">> -> 60000
      [] u = <<"h">> -> 3600000

\* 1<<63 and 1<<63/unit, the largest counts ParseDuration takes.
MaxUint63 ==
    <<"9", "2", "2", "3", "3", "7", "2", "0", "3", "6", "8", "5", "4", "7", "7", "5",
      "8", "0", "8">>

UnitLimit(u) ==
    CASE u = <<"m", "s">> -> <<"9", "2", "2", "3", "3", "7", "2", "0", "3", "6", "8", "5", "4">>
      [] u = <<"s">> -> <<"9", "2", "2", "3", "3", "7", "2", "0", "3", "6">>
      [] u = <<"m">> -> <<"1", "5", "3", "7", "2", "2", "8", "6", "7">>
      [] u = <<"h">> -> <<"2", "5", "6", "2", "0", "4", "7">>

\* 10 to the n.
RECURSIVE Pow10(_)
Pow10(n) == IF n = 0 THEN 1 ELSE 10 * Pow10(n - 1)

DurationError == [ok |-> FALSE, ms |-> 0]

\* The loop of time.ParseDuration over the terms of s, d the sum so far.
RECURSIVE ParseTerms(_, _)

\* The term v.f followed by the unit u: its count must fit the unit.
AddTerm(v, f, u, rest, d) ==
    IF u \notin UnitNames THEN DurationError
    ELSE IF NumeralGreater(v, UnitLimit(u)) THEN DurationError
    ELSE ParseTerms(rest,
                    d + NumeralValue(v) * UnitMillis(u)
                      + (NumeralValue(f) * UnitMillis(u)) \div Pow10(Len(f)))

\* After the number v.f: a number needs a digit, then the unit is the
\* longest run of characters that are no digit and no '.'.
ParseUnit(v, f, s, d) ==
    IF Len(v) = 0 /\ Len(f) = 0 THEN DurationError
    ELSE IF UnitRun(s) = 0 THEN DurationError
    ELSE AddTerm(v, f, SubSeq(s, 1, UnitRun(s)), SubSeq(s, UnitRun(s) + 1, Len(s)), d)

\* After the leading digits v: they must not exceed 1<<63; a '.' starts
\* the fraction.
ParseFraction(v, s, d) ==
    IF NumeralGreater(v, MaxUint63) THEN DurationError
    ELSE IF Len(s) > 0 /\ s[1] = "."
         THEN ParseUnit(v, SubSeq(s, 2, 1 + DigitRun(Tail(s))),
                        SubSeq(s, 2 + DigitRun(Tail(s)), Len(s)), d)
         ELSE ParseUnit(v, <<>>, s, d)

ParseTerms(s, d) ==
    IF Len(s) = 0 THEN [ok |-> TRUE, ms |-> d]
    ELSE IF ~(s[1] = "." \/ IsDigit(s[1])) THEN DurationError
    ELSE ParseFraction(SubSeq(s, 1, DigitRun(s)), SubSeq(s, DigitRun(s) + 1, Len(s)), d)

\* time.ParseDuration(s)
ParseDuration(s) ==
    LET signed == Len(s) > 0 /\ s[1] \in {"-", "+"}
        neg == signed /\ s[1] = "-"
        body == IF signed THEN Tail(s) ELSE s
    IN
    IF body = <<"0">> THEN [ok |-> TRUE, ms |-> 0]
    ELSE IF Len(body) = 0 THEN DurationError
    ELSE
        LET r == ParseTerms(body, 0) IN
        IF r.ok /\ neg THEN [ok |-> TRUE, ms |-> 0 - r.ms] ELSE r

\* A duration taken for its count of seconds as it stands.
MillisAsSeconds(ms) == ms

\* int(d.Seconds()): the fraction is dropped, towards zero.
WholeSeconds(ms) == IF ms >= 0 THEN ms \div 1000 ELSE 0 - ((0 - ms) \div 1000)

\* extractInitTimeout(t): (seconds, nil) or (0, err).
extractInitTimeout(t) ==
    LET d == ParseDuration(t) IN
    IF ~d.ok THEN [err |-> TRUE, sec |-> 0] ELSE [err |-> FALSE, sec |-> WholeSeconds(d.ms)]

\* The wire string Create encodes for timeout_sec = n, given n's numeral.
EncodeTimeout(numeral) == numeral \o <<"s">>

(***************************************************************************)
(* Read: flattening the ClusterConfig the service returned.  A map is a    *)
(* function on the keys it holds, a block a sequence of maps, a URI or a   *)
(* resource name the sequence of its path segments ("" is <<>>), a nil     *)
(* pointer Nil.                                                            *)
(***************************************************************************)
Nil == [isNil |-> TRUE]

EmptyMap == <<>>

\* m[k] = v
Put(m, k, v) == [x \in DOMAIN m \cup {k} |-> IF x = k THEN v ELSE m[x]]

\* A URI handed on as it was written.
WholeUri(uri) == uri

\* The last path segment of a URI, the URI itself when it has one segment
\* or none.
extractLastResourceFromUri(uri) == IF Len(uri) = 0 THEN <<>> ELSE <<uri[Len(uri)]>>

\* getOrCreateNewMap(d, key): the map the block d[key] holds, or a new one.
getOrCreateNewMap(d, key) ==
    IF key \in DOMAIN d /\ Len(d[key]) > 0 THEN d[key][1] ELSE EmptyMap

\* getOrCreateNewMapSchema(d, key), d the stored attributes.
getOrCreateNewMapSchema(d, key) == getOrCreateNewMap(d, key)

\* The scope URIs in lexicographic order.
ScopeOrder ==
    <<"https://www.googleapis.com/auth/cloud.useraccounts.readonly",
      "https://www.googleapis.com/auth/devstorage.read_write",
      "https://www.googleapis.com/auth/logging.write",
      "https://www.googleapis.com/auth/monitoring">>

ScopeRank(u) == CHOOSE i \in 1..Len(ScopeOrder) : ScopeOrder[i] = u

\* A list left in the order it has.
Unsorted(xs) == xs

\* sort.Strings(xs) on scope URIs (insertion sort on their rank).
RECURSIVE InsertSorted(_, _)
InsertSorted(x, sorted) ==
    IF Len(sorted) = 0 THEN <<x>>
    ELSE IF ScopeRank(x) <= ScopeRank(sorted[1]) THEN <<x>> \o sorted
    ELSE <<sorted[1]>> \o InsertSorted(x, Tail(sorted))

RECURSIVE SortStrings(_)
SortStrings(xs) ==
    IF Len(xs) = 0 THEN <<>> ELSE InsertSorted(xs[1], SortStrings(Tail(xs)))

\* m after the assignments m[k] = kv[k], k in DOMAIN kv.
Merge(m, kv) == [x \in DOMAIN m \cup DOMAIN kv |-> IF x \in DOMAIN kv THEN kv[x] ELSE m[x]]

\* flattenGceClusterConfig(parent, gcc); gcc is never nil in an answer of
\* the service.  network, subnetwork and service_account_scopes are assigned
\* only when the answer holds them.
flattenGceClusterConfig(parent, gcc) ==
    LET keys == {"zone", "tags", "service_account"}
                \cup (IF gcc.NetworkUri # <<>> THEN {"network"} ELSE {})
                \cup (IF gcc.SubnetworkUri # <<>> THEN {"subnetwork"} ELSE {})
                \cup (IF Len(gcc.ServiceAccountScopes) > 0
                      THEN {"service_account_scopes"} ELSE {})
    IN <<Merge(getOrCreateNewMap(parent, "gce_cluster_config"),
               [k \in keys |->
                   CASE k = "zone" -> extractLastResourceFromUri(gcc.ZoneUri)
                     [] k = "tags" -> gcc.Tags
                     [] k = "service_account" -> gcc.ServiceAccount
                     [] k = "network" -> extractLastResourceFromUri(gcc.NetworkUri)
                     [] k = "subnetwork" -> extractLastResourceFromUri(gcc.SubnetworkUri)
                     [] k = "service_account_scopes" ->
                            SortStrings(gcc.ServiceAccountScopes)])>>

\* flattenSoftwareConfig(parent, sc) for sc not nil.
flattenSoftwareConfig(parent, sc) ==
    <<Merge(getOrCreateNewMap(parent, "software_config"),
            [k \in {"image_version", "properties"} |->
                IF k = "image_version" THEN sc.ImageVersion ELSE sc.Properties])>>

\* The disk_config block of an instance group: the prior one with the
\* fields of dc, left as it was when icg or its DiskConfig is nil.
FlattenDisk(data, icg, withSsds) ==
    IF icg = Nil \/ icg.DiskConfig = Nil THEN <<getOrCreateNewMap(data, "disk_config")>>
    ELSE <<Merge(getOrCreateNewMap(data, "disk_config"),
                 [k \in {"boot_disk_size_gb"} \cup (IF withSsds THEN {"num_local_ssds"} ELSE {}) |->
                     IF k = "boot_disk_size_gb" THEN icg.DiskConfig.BootDiskSizeGb
                     ELSE icg.DiskConfig.NumLocalSsds])>>

\* flattenInstanceGroupConfig(parent, name, icg)
flattenInstanceGroupConfig(parent, name, icg) ==
    LET keys == {"instance_names", "disk_config"}
                \cup (IF icg = Nil THEN {} ELSE {"num_instances", "machine_type"})
    IN <<Merge(getOrCreateNewMap(parent, name),
               [k \in keys |->
                   CASE k = "instance_names" -> IF icg = Nil THEN <<>> ELSE icg.InstanceNames
                     [] k = "disk_config" ->
                            FlattenDisk(getOrCreateNewMap(parent, name), icg, TRUE)
                     [] k = "num_instances" -> icg.NumInstances
                     [] k = "machine_type" -> extractLastResourceFromUri(icg.MachineTypeUri)])>>

\* flattenPreemptibleInstanceGroupConfig(parent, name, icg)
flattenPreemptibleInstanceGroupConfig(parent, name, icg) ==
    LET keys == {"instance_names", "disk_config"}
                \cup (IF icg = Nil THEN {} ELSE {"num_instances"})
    IN <<Merge(getOrCreateNewMap(parent, name),
               [k \in keys |->
                   CASE k = "instance_names" -> IF icg = Nil THEN <<>> ELSE icg.InstanceNames
                     [] k = "disk_config" ->
                            FlattenDisk(getOrCreateNewMap(parent, name), icg, FALSE)
                     [] k = "num_instances" -> icg.NumInstances])>>

\* One element of flattenInitializationActions, ok false when its timeout
\* does not parse.
FlattenAction(v) ==
    LET a0 == [x \in {"script"} |-> v.ExecutableFile]
        t == extractInitTimeout(v.ExecutionTimeout)
    IN
    IF Len(v.ExecutionTimeout) = 0 THEN [ok |-> TRUE, action |-> a0]
    ELSE IF t.err THEN [ok |-> FALSE, action |-> a0]
    ELSE [ok |-> TRUE, action |-> Put(a0, "timeout_sec", t.sec)]

\* flattenInitializationActions(nia)
flattenInitializationActions(nia) ==
    IF \E i \in 1..Len(nia) : ~FlattenAction(nia[i]).ok THEN [err |-> TRUE, val |-> <<>>]
    ELSE [err |-> FALSE, val |-> [i \in 1..Len(nia) |-> FlattenAction(nia[i]).action]]

\* The error of time.ParseDuration.
ErrDuration == "time: invalid duration"

\* How flattenClusterConfig ends.
FlattenPanicked == [kind |-> "panic"]
FlattenFailed == [kind |-> "error"]
Flattened(data) == [kind |-> "ok", data |-> data]

\* The key flattenClusterConfig stores the initialization actions under.
InitActionsKey == "intialization_action"

\* flattenClusterConfig(d, cfg), prior the cluster_config block d holds.
\* Each helper reads, of the map being filled, only the block it rewrites.
flattenClusterConfig(prior, cfg) ==
    LET c0 == getOrCreateNewMapSchema(prior, "cluster_config")
        acts == flattenInitializationActions(cfg.InitializationActions)
        keys == {"bucket", "gce_cluster_config", "software_config", "master_config",
                 "worker_config", "preemptible_worker_config"}
                \cup (IF Len(cfg.InitializationActions) > 0 THEN {InitActionsKey} ELSE {})
    IN
    IF cfg.SoftwareConfig = Nil THEN FlattenPanicked
    ELSE IF Len(cfg.InitializationActions) > 0 /\ acts.err THEN FlattenFailed
    ELSE Flattened(Merge(c0,
             [k \in keys |->
                 CASE k = "bucket" -> cfg.ConfigBucket
                   [] k = "gce_cluster_config" ->
                          flattenGceClusterConfig(c0, cfg.GceClusterConfig)
                   [] k = "software_config" ->
                          flattenSoftwareConfig(c0, cfg.SoftwareConfig)
                   [] k = "master_config" ->
                          flattenInstanceGroupConfig(c0, "master_config", cfg.MasterConfig)
                   [] k = "worker_config" ->
                          flattenInstanceGroupConfig(c0, "worker_config", cfg.WorkerConfig)
                   [] k = "preemptible_worker_config" ->
                          flattenPreemptibleInstanceGroupConfig(
                              c0, "preemptible_worker_config", cfg.SecondaryWorkerConfig)
                   [] k = InitActionsKey -> acts.val]))

(***************************************************************************)
(* The functions run on their own.                                         *)
(***************************************************************************)
Returned(v) == [done |-> TRUE, val |-> v]

ZoneUri == <<"projects", "p", "zones", "us-central1-a">>
NetworkUri == <<"projects", "p", "global", "networks", "net-1">>
SubnetworkUri == <<"projects", "p", "regions", "us-central1", "subnetworks", "sub-1">>
MachineTypeUri == <<"projects", "p", "zones", "us-central1-a", "machineTypes", "n1-standard-1">>

\* The GceClusterConfig of an answer of the service.
GcePayloads ==
    [ZoneUri : {ZoneUri}, NetworkUri : {<<>>, NetworkUri},
     SubnetworkUri : {<<>>, SubnetworkUri}, Tags : {<<>>}, ServiceAccount : {""},
     ServiceAccountScopes : {<<>>, <<ScopeOrder[3], ScopeOrder[1]>>}]

SoftwarePayloads == {Nil, [ImageVersion |-> "1.1", Properties |-> {"k=v"}]}

InstanceGroupPayloads ==
    {Nil,
     [NumInstances |-> 2, MachineTypeUri |-> MachineTypeUri, InstanceNames |-> <<"w-0", "w-1">>,
      DiskConfig |-> [BootDiskSizeGb |-> 10, NumLocalSsds |-> 0]]}

ActionPayloads ==
    {<<>>,
     <<[ExecutableFile |-> "gs://b/init.sh", ExecutionTimeout |-> <<"5", "0", "0", "s">>],
       [ExecutableFile |-> "gs://b/init.sh", ExecutionTimeout |-> <<"3", "0", "0", "s">>]>>,
     <<[ExecutableFile |-> "gs://b/init.sh", ExecutionTimeout |-> <<"5", "0", "0">>]>>}

\* The ClusterConfig of an answer of the service.
ConfigPayloads ==
    [ConfigBucket : {AutogenBucket}, GceClusterConfig : GcePayloads,
     SoftwareConfig : SoftwarePayloads, MasterConfig : InstanceGroupPayloads,
     WorkerConfig : InstanceGroupPayloads, SecondaryWorkerConfig : InstanceGroupPayloads,
     InitializationActions : ActionPayloads]

\* A cluster_config block stored by an earlier Read of a cluster on another
\* network with more workers.
StoredBlock ==
    [x \in {"delete_autogen_bucket", "bucket", "gce_cluster_config", "worker_config"} |->
        CASE x = "delete_autogen_bucket" -> TRUE
          [] x = "bucket" -> AutogenBucket
          [] x = "gce_cluster_config" ->
                 <<[y \in {"zone", "network", "subnetwork"} |->
                       CASE y = "zone" -> <<"us-central1-a">>
                         [] y = "network" -> <<"net-0">>
                         [] y = "subnetwork" -> <<"sub-0">>]>>
          [] x = "worker_config" ->
                 <<[y \in {"num_instances", "instance_names", "disk_config"} |->
                       CASE y = "num_instances" -> 5
                         [] y = "instance_names" -> <<"w-0">>
                         [] y = "disk_config" -> <<EmptyMap>>]>>]

\* The stored attributes Read may find: none, or an earlier block.
StoredStates == {EmptyMap, [x \in {"cluster_config"} |-> <<StoredBlock>>]}

FlattenInputs ==
    [fn : {"flattenClusterConfig"}, prior : StoredStates, cfg : ConfigPayloads]

Flatten ==
    /\ input.fn = "flattenClusterConfig"
    /\ ~output.done
    /\ output' = Returned(flattenClusterConfig(input.prior, input.cfg))
    /\ UNCHANGED <<id, st, pc, bk, op, req, diff, ret, calls, patch, input>>

(***************************************************************************)
(* Create: translating the cluster_config block.  The map of a block holds *)
(* every key of its schema, with the zero value (or the schema's Default)  *)
(* for what the configuration leaves out; a block left out is <<>>.        *)
(***************************************************************************)
\* The scopes a configuration may name, by alias or in full.
ScopeAliases == <<"useraccounts-ro", "storage-rw", "logging-write">>

\* canonicalizeServiceScope(scope): the full URI of an alias, the scope itself
\* otherwise.
canonicalizeServiceScope(scope) ==
    IF \E i \in 1..Len(ScopeAliases) : ScopeAliases[i] = scope
    THEN ScopeOrder[CHOOSE i \in 1..Len(ScopeAliases) : ScopeAliases[i] = scope]
    ELSE scope

\* convertAndMapStringArr(xs, canonicalizeServiceScope)
CanonicalScopes(xs) == [i \in 1..Len(xs) |-> canonicalizeServiceScope(xs[i])]

\* configOptions(d, option): the map of a block that was given.
HasBlock(m, key) == key \in DOMAIN m /\ Len(m[key]) > 0

\* The GceClusterConfig Create builds; it starts from an empty one.
EmptyGce ==
    [ZoneUri |-> <<>>, NetworkUri |-> <<>>, SubnetworkUri |-> <<>>, Tags |-> <<>>,
     ServiceAccount |-> "", ServiceAccountScopes |-> <<>>]

TranslateGce(block) ==
    IF ~HasBlock(block, "gce_cluster_config") THEN EmptyGce
    ELSE
        LET cfg == block["gce_cluster_config"][1] IN
        [ZoneUri |-> IF "zone" \in DOMAIN cfg THEN cfg["zone"] ELSE <<>>,
         NetworkUri |-> IF "network" \in DOMAIN cfg
                        THEN extractLastResourceFromUri(cfg["network"]) ELSE <<>>,
         SubnetworkUri |-> IF "subnetwork" \in DOMAIN cfg
                           THEN extractLastResourceFromUri(cfg["subnetwork"]) ELSE <<>>,
         Tags |-> IF "tags" \in DOMAIN cfg THEN cfg["tags"] ELSE <<>>,
         ServiceAccount |-> IF "service_account" \in DOMAIN cfg
                            THEN cfg["service_account"] ELSE "",
         ServiceAccountScopes |->
             IF "service_account_scopes" \in DOMAIN cfg
             THEN SortStrings(CanonicalScopes(cfg["service_account_scopes"])) ELSE <<>>]

TranslateSoftware(block) ==
    IF ~HasBlock(block, "software_config") THEN Nil
    ELSE
        LET cfg == block["software_config"][1] IN
        [ImageVersion |-> IF "image_version" \in DOMAIN cfg THEN cfg["image_version"] ELSE "",
         Properties |-> IF "override_properties" \in DOMAIN cfg
                        THEN cfg["override_properties"] ELSE {}]

\* One NodeInitializationAction: timeout_sec, when the map holds it, is
\* written as its decimal numeral followed by "s".
TranslateAction(item) ==
    [ExecutableFile |-> item["script"],
     ExecutionTimeout |-> IF "timeout_sec" \in DOMAIN item
                          THEN EncodeTimeout(Itoa(item["timeout_sec"])) ELSE <<>>]

TranslateActions(block) ==
    IF ~HasBlock(block, "initialization_action") THEN <<>>
    ELSE [i \in 1..Len(block["initialization_action"]) |->
              TranslateAction(block["initialization_action"][i])]

\* The DiskConfig of an instance group; the preemptible one has no
\* num_local_ssds.
TranslateDisk(cfg, withSsds) ==
    IF ~HasBlock(cfg, "disk_config") THEN Nil
    ELSE
        LET dcfg == cfg["disk_config"][1] IN
        [BootDiskSizeGb |-> IF "boot_disk_size_gb" \in DOMAIN dcfg
                            THEN dcfg["boot_disk_size_gb"] ELSE 0,
         NumLocalSsds |-> IF withSsds /\ "num_local_ssds" \in DOMAIN dcfg
                          THEN dcfg["num_local_ssds"] ELSE 0]

\* instanceGroupConfigCreate(cfg)
instanceGroupConfigCreate(cfg) ==
    [NumInstances |-> IF "num_instances" \in DOMAIN cfg THEN cfg["num_instances"] ELSE 0,
     MachineTypeUri |-> IF "machine_type" \in DOMAIN cfg
                        THEN extractLastResourceFromUri(cfg["machine_type"]) ELSE <<>>,
     InstanceNames |-> <<>>,
     DiskConfig |-> TranslateDisk(cfg, TRUE)]

\* preemptibleInstanceGroupConfigCreate(cfg)
preemptibleInstanceGroupConfigCreate(cfg) ==
    [NumInstances |-> IF "num_instances" \in DOMAIN cfg THEN cfg["num_instances"] ELSE 0,
     MachineTypeUri |-> <<>>,
     InstanceNames |-> <<>>,
     DiskConfig |-> TranslateDisk(cfg, FALSE)]

\* cluster.Config as Create builds it from the cluster_config block.
TranslateConfig(block) ==
    [ConfigBucket |-> IF "staging_bucket" \in DOMAIN block THEN block["staging_bucket"] ELSE "",
     GceClusterConfig |-> TranslateGce(block),
     SoftwareConfig |-> TranslateSoftware(block),
     MasterConfig |-> IF HasBlock(block, "master_config")
                      THEN instanceGroupConfigCreate(block["master_config"][1]) ELSE Nil,
     WorkerConfig |-> IF HasBlock(block, "worker_config")
                      THEN instanceGroupConfigCreate(block["worker_config"][1]) ELSE Nil,
     SecondaryWorkerConfig |->
         IF HasBlock(block, "preemptible_worker_config")
         THEN preemptibleInstanceGroupConfigCreate(block["preemptible_worker_config"][1])
         ELSE Nil,
     InitializationActions |-> TranslateActions(block)]

\* The keys of the cluster_config block in the schema.
ConfigKeys ==
    {"delete_autogen_bucket", "staging_bucket", "bucket", "gce_cluster_config",
     "master_config", "worker_config", "preemptible_worker_config", "software_config",
     "initialization_action"}

\* The timeout_sec of an initialization_action that declares none.
DefaultTimeoutSec == 300

GceMap(network, scopes) ==
    [x \in {"zone", "network", "subnetwork", "tags", "service_account",
            "service_account_scopes"} |->
        CASE x = "zone" -> <<"us-central1-a">>
          [] x = "network" -> network
          [] x = "subnetwork" -> <<>>
          [] x = "tags" -> <<>>
          [] x = "service_account" -> ""
          [] x = "service_account_scopes" -> scopes]

DiskMap(boot) ==
    [x \in {"boot_disk_size_gb", "num_local_ssds"} |->
        IF x = "boot_disk_size_gb" THEN boot ELSE 1]

InstanceMap(n, boot) ==
    [x \in {"num_instances", "machine_type", "instance_names", "disk_config"} |->
        CASE x = "num_instances" -> n
          [] x = "machine_type" -> <<"n1-standard-1">>
          [] x = "instance_names" -> <<>>
          [] x = "disk_config" -> <<DiskMap(boot)>>]

PreemptibleMap(n, boot) ==
    [x \in {"num_instances", "instance_names", "disk_config"} |->
        CASE x = "num_instances" -> n
          [] x = "instance_names" -> <<>>
          [] x = "disk_config" -> <<[y \in {"boot_disk_size_gb"} |-> boot]>>]

SoftwareMap ==
    [x \in {"image_version", "override_properties", "properties"} |->
        IF x = "image_version" THEN "1.1" ELSE {}]

ActionMap(script, timeout) ==
    [x \in {"script", "timeout_sec"} |-> IF x = "script" THEN script ELSE timeout]

\* A cluster_config block with master, worker and secondary-worker configs, a
\* network and two initialization actions.
DesiredBlock(software, secondaries, t1, t2) ==
    [x \in ConfigKeys |->
        CASE x = "delete_autogen_bucket" -> FALSE
          [] x = "staging_bucket" -> ""
          [] x = "bucket" -> ""
          [] x = "gce_cluster_config" -> <<GceMap(<<"net-1">>, <<>>)>>
          [] x = "master_config" -> <<InstanceMap(1, 10)>>
          [] x = "worker_config" -> <<InstanceMap(2, 11)>>
          [] x = "preemptible_worker_config" -> <<PreemptibleMap(secondaries, 12)>>
          [] x = "software_config" -> IF software THEN <<SoftwareMap>> ELSE <<>>
          [] x = "initialization_action" ->
                 <<ActionMap("gs://b/one.sh", t1), ActionMap("gs://b/two.sh", t2)>>]

\* The timeouts tried: declared ones and the schema's Default.
TimeoutChoices == {DefaultTimeoutSec, 500, 0, MaxSeconds}

DesiredBlocks ==
    {DesiredBlock(software, secondaries, t1, t2) :
        software \in BOOLEAN, secondaries \in {0, 1},
        t1 \in TimeoutChoices, t2 \in {DefaultTimeoutSec}}

\* Read after Create finds the configuration in d; an import finds nothing.
RoundTripInputs == [fn : {"roundTrip"}, block : DesiredBlocks, fromConfig : BOOLEAN]

\* flattenClusterConfig on what Create translated.
RoundTrip ==
    /\ input.fn = "roundTrip"
    /\ ~output.done
    /\ \E cfg \in {TranslateConfig(input.block)} :
           output' = Returned(flattenClusterConfig(
                                  IF input.fromConfig
                                  THEN [x \in {"cluster_config"} |-> <<input.block>>]
                                  ELSE EmptyMap,
                                  cfg))
    /\ UNCHANGED <<id, st, pc, bk, op, req, diff, ret, calls, patch, input>>

(***************************************************************************)
(* Create: the initialization actions of a configuration.  An action       *)
(* declares its script and may declare timeout_sec; the map Create gets    *)
(* from d holds every attribute of the schema.                             *)
(***************************************************************************)
\* An action as the configuration declares it.
DeclaredActions ==
    { [x \in {"script"} |-> "gs://b/one.sh"] }
    \cup { ActionMap("gs://b/one.sh", t) : t \in {500, MaxSeconds} }

DeclaredActionLists ==
    { <<a>> : a \in DeclaredActions } \cup { <<a, b>> : a, b \in DeclaredActions }

\* A declared action that leaves timeout_sec out, as d holds it.
ActionAttrsUndefaulted(decl) == decl

\* The map d holds for a declared action: timeout_sec left out takes the
\* schema's Default.
ActionAttrs(decl) ==
    [x \in {"script", "timeout_sec"} |->
        IF x \in DOMAIN decl THEN decl[x] ELSE DefaultTimeoutSec]

TranslateInputs == [fn : {"translateActions"}, actions : DeclaredActionLists]

\* The InitializationActions Create builds for the declared actions.
Translate ==
    /\ input.fn = "translateActions"
    /\ ~output.done
    /\ output' = Returned(TranslateActions(
                     [x \in {"initialization_action"} |->
                         [i \in 1..Len(input.actions) |-> ActionAttrs(input.actions[i])]]))
    /\ UNCHANGED <<id, st, pc, bk, op, req, diff, ret, calls, patch, input>>

(***************************************************************************)
(* Create and Read: the timeout on the wire.  timeout_sec is a 64-bit int: *)
(* it is given by its decimal numeral, which is what strconv.Itoa writes.  *)
(***************************************************************************)
\* Numerals of timeouts whose milliseconds fit the model's integers.
SmallNumerals == {Itoa(n) : n \in 0..MaxSeconds} \cup {Itoa(86400), Itoa(2147483)}

\* The first timeout beyond 1<<63 nanoseconds, and the largest int.
WideNumerals ==
    {<<"9", "2", "2", "3", "3", "7", "2", "0", "3", "7">>,
     <<"9", "2", "2", "3", "3", "7", "2", "0", "3", "6", "8", "5", "4", "7", "7", "5",
       "8", "0", "7">>}

EncodeDecodeInputs == [fn : {"encodeDecode"}, numeral : SmallNumerals \cup WideNumerals]

\* extractInitTimeout on the string Create encodes.
EncodeDecode ==
    /\ input.fn = "encodeDecode"
    /\ ~output.done
    /\ output' = Returned(extractInitTimeout(EncodeTimeout(input.numeral)))
    /\ UNCHANGED <<id, st, pc, bk, op, req, diff, ret, calls, patch, input>>

(***************************************************************************)
(* Read: the timeout strings extractInitTimeout may be given.              *)
(***************************************************************************)
\* The characters tried: digits, the point, a sign, the letters of the
\* units and a letter of none.
Alphabet == {"0", "5", ".", "-", "s", "m", "h", "x"}

TimeoutStrings ==
    UNION { [1..k -> Alphabet] : k \in 0..MaxLen }
    \cup {<<"5", "0", "0", "s">>, <<"1", ".", "5", "s">>, <<"5", ".", "5", "m">>}

ExtractInputs == [fn : {"extractInitTimeout"}, t : TimeoutStrings]

ExtractTimeout ==
    /\ input.fn = "extractInitTimeout"
    /\ ~output.done
    /\ output' = Returned(extractInitTimeout(input.t))
    /\ UNCHANGED <<id, st, pc, bk, op, req, diff, ret, calls, patch, input>>

(***************************************************************************)
(* The ValidateFunc of name.  A name is the sequence of its characters.    *)
(***************************************************************************)
\* The longest name the validator takes.
NameLimit == 55
\* The longest name of which every spelling is tried.
MaxShortName == 4

\* The lowercase letters and the digits tried, of a-z and 0-9.
LowerChars == {"a", "b", "z"}
NameDigits == {"0", "1", "9"}
\* Characters of a name: of the pattern, and an upper-case letter, an
\* underscore and a line feed outside it.
NameChars == {"a", "b", "1", "-", "A"}
OtherChars == {"z", "0", "9", "_", "\n"}

\* len(value) >= n
AsLongAs(value, n) == Len(value) >= n

\* len(value) > n
LongerThan(value, n) == Len(value) > n

\* regexp ^[a-z0-9-]+$
MatchesNamePattern(value) ==
    Len(value) > 0 /\ \A i \in 1..Len(value) : value[i] \in LowerChars \cup NameDigits \cup {"-"}

\* regexp ^[a-z]
MatchesLeadingLetter(value) == Len(value) > 0 /\ value[1] \in LowerChars

\* regexp [a-z0-9]$
MatchesTrailingAlnum(value) ==
    Len(value) > 0 /\ value[Len(value)] \in LowerChars \cup NameDigits

\* The errors ValidateFunc returns for value.
ValidateName(value) ==
    (IF LongerThan(value, NameLimit) THEN {"cannot be longer than 55 characters"} ELSE {})
    \cup (IF ~MatchesNamePattern(value)
          THEN {"can only contain lowercase letters, numbers and hyphens"} ELSE {})
    \cup (IF ~MatchesLeadingLetter(value) THEN {"must start with a letter"} ELSE {})
    \cup (IF ~MatchesTrailingAlnum(value) THEN {"must end with a number or a letter"} ELSE {})

\* A name of n characters: first, then fill, then last.
LongName(n, first, fill, last) ==
    [i \in 1..n |-> IF i = 1 THEN first ELSE IF i = n THEN last ELSE fill]

Names ==
    UNION { [1..k -> NameChars] : k \in 0..MaxShortName }
    \cup { LongName(n, first, fill, last) :
               n \in (NameLimit - 1)..(NameLimit + 2),
               first \in {"a", "1"}, fill \in {"a", "-"}, last \in {"b", "-"} }
    \cup { <<"a", c, "b">> : c \in OtherChars } \cup { <<"a", c>> : c \in OtherChars }

ValidateInputs == [fn : {"validateName"}, value : Names]

Validate ==
    /\ input.fn = "validateName"
    /\ ~output.done
    /\ output' = Returned(ValidateName(input.value))
    /\ UNCHANGED <<id, st, pc, bk, op, req, diff, ret, calls, patch, input>>

(***************************************************************************)
(* Create and Read: the scopes of the service account.                     *)
(***************************************************************************)
\* The longest list of scopes tried.
MaxScopes == 3

\* The scopes a list may name: the aliases, the full form of one of them
\* and a scope that has no alias.
ScopeNames == {ScopeAliases[i] : i \in 1..Len(ScopeAliases)} \cup {ScopeOrder[3], ScopeOrder[4]}

ScopeLists == UNION { [1..k -> ScopeNames] : k \in 0..MaxScopes }

\* The ServiceAccountScopes Create puts in the payload for the scopes xs.
CreateScopes(xs) ==
    TranslateGce([x \in {"gce_cluster_config"} |-> <<GceMap(<<>>, xs)>>]).ServiceAccountScopes

\* The service_account_scopes Read stores for an answer that holds the
\* scopes xs, none when it stores none.
ReadScopes(xs) ==
    LET got == flattenGceClusterConfig(
                   EmptyMap, [EmptyGce EXCEPT !.ZoneUri = ZoneUri, !.ServiceAccountScopes = xs])[1]
    IN IF "service_account_scopes" \in DOMAIN got THEN got["service_account_scopes"] ELSE <<>>

ScopesInputs == [fn : {"scopes"}, scopes : ScopeLists]

\* Create on the scopes as written, and Read on an answer that holds their
\* full forms in the order written.
Scopes ==
    /\ input.fn = "scopes"
    /\ ~output.done
    /\ output' = Returned([payload |-> CreateScopes(input.scopes),
                           state |-> ReadScopes(CanonicalScopes(input.scopes))])
    /\ UNCHANGED <<id, st, pc, bk, op, req, diff, ret, calls, patch, input>>

(***************************************************************************)
(* Create: references to a network, a subnetwork and a machine type, by    *)
(* short name or by URI.                                                   *)
(***************************************************************************)
\* The ways a configuration may write the resource name under the path
\* parent: the name, its path in the project, its full URL.
RefForms(parent, name) ==
    {<<name>>,
     <<"projects", "p">> \o parent \o <<name>>,
     <<"https:", "", "www.googleapis.com", "compute", "v1", "projects", "p">>
         \o parent \o <<name>>}

NetworkRefs == UNION {RefForms(<<"global", "networks">>, n) : n \in {"net-1", "net-2"}}
SubnetworkRefs ==
    {<<>>} \cup RefForms(<<"regions", "us-central1", "subnetworks">>, "sub-1")
MachineTypeRefs ==
    UNION {RefForms(<<"zones", "us-central1-a", "machineTypes">>, n) :
               n \in {"n1-standard-1", "n1-highmem-2"}}

\* The cluster_config block that names the three resources.
RefsBlock(network, subnetwork, machineType) ==
    [x \in {"gce_cluster_config", "master_config"} |->
        IF x = "gce_cluster_config"
        THEN <<[GceMap(network, <<>>) EXCEPT !["subnetwork"] = subnetwork]>>
        ELSE <<[InstanceMap(1, 10) EXCEPT !["machine_type"] = machineType]>>]

\* What Create puts in the payload for the three resources.
CreateRefs(network, subnetwork, machineType) ==
    LET cfg == TranslateConfig(RefsBlock(network, subnetwork, machineType)) IN
    [network |-> cfg.GceClusterConfig.NetworkUri,
     subnetwork |-> cfg.GceClusterConfig.SubnetworkUri,
     machineType |-> cfg.MasterConfig.MachineTypeUri]

RefsInputs ==
    [fn : {"refs"}, network : NetworkRefs, subnetwork : SubnetworkRefs,
     machineType : MachineTypeRefs]

Refs ==
    /\ input.fn = "refs"
    /\ ~output.done
    /\ output' = Returned(CreateRefs(input.network, input.subnetwork, input.machineType))
    /\ UNCHANGED <<id, st, pc, bk, op, req, diff, ret, calls, patch, input>>

(***************************************************************************)
(* Read: what it stores of the cluster Clusters.Get returned.  d is the    *)
(* map of the stored attributes name, region, labels and cluster_config.   *)
(***************************************************************************)
\* resourceDataprocClusterRead from the answer of Clusters.Get on: what it
\* returns and the attributes it leaves.
ReadStores(d, cluster) ==
    LET d1 == Merge(d, [k \in {"name", "region", "labels"} |->
                           CASE k = "name" -> cluster.ClusterName
                             [] k = "region" -> d["region"]
                             [] k = "labels" -> cluster.Labels])
        cfg == flattenClusterConfig(d1, cluster.Config)
    IN
    CASE cfg.kind = "panic" -> [ret |-> Panicked, d |-> d1]
      [] cfg.kind = "error" -> [ret |-> ErrDuration, d |-> d1]
      [] OTHER -> [ret |-> Ok, d |-> Merge(d1, [k \in {"cluster_config"} |-> <<cfg.data>>])]

\* The attributes stored before Read.
StoredAttrs ==
    {[k \in {"name", "region", "labels", "cluster_config"} |->
         CASE k = "name" -> ClusterName
           [] k = "region" -> "us-central1"
           [] k = "labels" -> labels
           [] k = "cluster_config" -> cc] :
        labels \in LabelSets, cc \in {<<>>, <<StoredBlock>>}}

\* The clusters Clusters.Get may return: with masters and workers, on a
\* network, with or without software config, scopes and actions.
ReadAnswers ==
    [ClusterName : {ClusterName}, Labels : LabelSets,
     Config : {c \in ConfigPayloads :
                  /\ c.MasterConfig # Nil
                  /\ c.WorkerConfig # Nil
                  /\ c.SecondaryWorkerConfig = Nil
                  /\ c.GceClusterConfig.NetworkUri # <<>>
                  /\ c.GceClusterConfig.SubnetworkUri = <<>>}]

ReadInputs == [fn : {"read"}, d : StoredAttrs, cluster : ReadAnswers]

ReadAttrs ==
    /\ input.fn = "read"
    /\ ~output.done
    /\ output' = Returned(ReadStores(input.d, input.cluster))
    /\ UNCHANGED <<id, st, pc, bk, op, req, diff, ret, calls, patch, input>>

FunctionInputs ==
    FlattenInputs \cup RoundTripInputs \cup TranslateInputs \cup EncodeDecodeInputs
    \cup ExtractInputs \cup ValidateInputs \cup ScopesInputs
    \cup RefsInputs \cup ReadInputs

InitFunctions ==
    /\ id = ""
    /\ st = EmptySt
    /\ pc = AbsentPc
    /\ bk = InitBuckets
    /\ op = "none"
    /\ req = NoReq
    /\ diff = {}
    /\ ret = Ok
    /\ calls = <<>>
    /\ patch = NoPatch
    /\ input \in FunctionInputs
    /\ output = Pending

NextFunctions == Flatten \/ RoundTrip \/ Translate \/ EncodeDecode \/ ExtractTimeout
    \/ Validate \/ Scopes \/ Refs \/ ReadAttrs

SpecFunctions == InitFunctions /\ [][NextFunctions]_vars

(***************************************************************************)
(* Read: what is emitted.                                                  *)
(***************************************************************************)
\* The flattened block holds a block under key.
Emits(data, key) == key \in DOMAIN data /\ Len(data[key]) > 0

\* C12: Read completes and emits a software_config, master_config,
\* worker_config or preemptible_worker_config block only when the field of
\* the answer it comes from is not null.
C12_BlocksOnlyForNonNull ==
    (input.fn = "flattenClusterConfig" /\ output.done) =>
        /\ output.val.kind = "ok"
        /\ input.cfg.SoftwareConfig = Nil => ~Emits(output.val.data, "software_config")
        /\ input.cfg.MasterConfig = Nil => ~Emits(output.val.data, "master_config")
        /\ input.cfg.WorkerConfig = Nil => ~Emits(output.val.data, "worker_config")
        /\ input.cfg.SecondaryWorkerConfig = Nil =>
               ~Emits(output.val.data, "preemptible_worker_config")

\* The attributes of a flattened block that reflect the service's answer.
ReflectedView(r) ==
    IF r.kind # "ok" THEN <<r.kind>>
    ELSE <<r.kind, r.data["bucket"], r.data["gce_cluster_config"], r.data["software_config"],
           r.data["master_config"], r.data["worker_config"],
           r.data["preemptible_worker_config"]>>

\* C13: what Read stores for the attributes that reflect the service's answer
\* depends on the answer alone, not on what was stored before; an empty
\* network or subnetwork URI leaves no network or subnetwork attribute.
C13_ReadReplacesWholesale ==
    (input.fn = "flattenClusterConfig" /\ output.done) =>
        /\ \A other \in StoredStates :
               ReflectedView(flattenClusterConfig(other, input.cfg)) = ReflectedView(output.val)
        /\ output.val.kind = "ok" =>
               LET gce == output.val.data["gce_cluster_config"][1] IN
               /\ input.cfg.GceClusterConfig.NetworkUri = <<>> => "network" \notin DOMAIN gce
               /\ input.cfg.GceClusterConfig.SubnetworkUri = <<>> =>
                      "subnetwork" \notin DOMAIN gce

(***************************************************************************)
(* Create and Read: the round trip.                                        *)
(***************************************************************************)
\* The block Read made holds, under the schema's names, what the
\* configuration gave for the fields the service does not compute.
Reproduces(block, data) ==
    /\ DOMAIN data \subseteq ConfigKeys
    /\ \A k \in {"gce_cluster_config", "master_config", "worker_config",
                 "preemptible_worker_config", "initialization_action"} : Emits(data, k)
    /\ LET want == block["gce_cluster_config"][1]
           got == data["gce_cluster_config"][1]
       IN \A f \in {"zone", "network"} : f \in DOMAIN got /\ got[f] = want[f]
    /\ \A k \in {"master_config", "worker_config"} :
           LET want == block[k][1]
               got == data[k][1]
           IN /\ \A f \in {"num_instances", "machine_type"} :
                     f \in DOMAIN got /\ got[f] = want[f]
              /\ got["disk_config"] = want["disk_config"]
    /\ LET want == block["preemptible_worker_config"][1]
           got == data["preemptible_worker_config"][1]
       IN /\ "num_instances" \in DOMAIN got
          /\ got["num_instances"] = want["num_instances"]
          /\ got["disk_config"] = want["disk_config"]
    /\ data["initialization_action"] = block["initialization_action"]

\* C14: flattening the payload Create translated from a configuration with
\* master, worker and secondary-worker configs, a network and two
\* initialization actions gives back every field of the configuration that
\* the service does not compute, under the names of the schema.
C14_RoundTripReproducesConfig ==
    (input.fn = "roundTrip" /\ output.done) =>
        /\ output.val.kind = "ok"
        /\ Reproduces(input.block, output.val.data)

(***************************************************************************)
(* Create: the timeout of an initialization action.                        *)
(***************************************************************************)
\* The actions of the input that declare no timeout_sec.
Undeclared == {i \in 1..Len(input.actions) : "timeout_sec" \notin DOMAIN input.actions[i]}

\* C15 as stated: an initialization action declared without timeout_sec has
\* no execution timeout in the payload Create builds.
C15_UnsetTimeoutIsOmitted ==
    (input.fn = "translateActions" /\ output.done) =>
        \A i \in Undeclared : output.val[i].ExecutionTimeout = <<>>

\* C15 amended: an initialization action declared without timeout_sec is
\* sent with the execution timeout "300s", the Default of the schema; a
\* declared timeout_sec is sent as its decimal numeral followed by "s".
C15_UnsetTimeoutSendsDefault ==
    (input.fn = "translateActions" /\ output.done) =>
        /\ Len(output.val) = Len(input.actions)
        /\ \A i \in Undeclared : output.val[i].ExecutionTimeout = <<"3", "0", "0", "s">>
        /\ \A i \in 1..Len(input.actions) \ Undeclared :
               output.val[i].ExecutionTimeout
                   = Itoa(input.actions[i]["timeout_sec"]) \o <<"s">>

C15_Witness ==
    /\ input.fn = "translateActions"
    /\ output.done
    /\ Len(input.actions) = 2
    /\ Undeclared = {2}
    /\ output.val[1].ExecutionTimeout = <<"5", "0", "0", "s">>

(***************************************************************************)
(* The timeout round trip.                                                 *)
(***************************************************************************)
\* C16 as stated: for every non-negative timeout_sec n, extractInitTimeout
\* of the string Create encodes for n returns n and no error.
C16_EveryTimeoutRoundTrips ==
    (input.fn = "encodeDecode" /\ output.done) =>
        /\ ~output.val.err
        /\ Itoa(output.val.sec) = input.numeral

\* C16 amended: extractInitTimeout of the string Create encodes for n
\* returns n and no error when n is at most 9223372036, the seconds that
\* fit 1<<63 nanoseconds, and an error when n is larger.
C16_TimeoutRoundTripsWithinRange ==
    (input.fn = "encodeDecode" /\ output.done) =>
        IF NumeralGreater(input.numeral, UnitLimit(<<"s">>))
        THEN output.val.err
        ELSE ~output.val.err /\ Itoa(output.val.sec) = input.numeral

C16_Witness ==
    /\ input.fn = "encodeDecode"
    /\ output.done
    /\ input.numeral = Itoa(MaxSeconds)
    /\ output.val = [err |-> FALSE, sec |-> MaxSeconds]

(***************************************************************************)
(* extractInitTimeout.                                                     *)
(***************************************************************************)
\* t ends in the name of a unit.
EndsInUnit(t) == \E u \in UnitNames : Len(t) >= Len(u) /\ SubSeq(t, Len(t) - Len(u) + 1, Len(t)) = u

\* t is "0", "+0" or "-0".
IsBareZero(t) == t \in {<<"0">>, <<"-", "0">>, <<"+", "0">>}

\* sec is the duration of ms milliseconds in whole seconds, towards zero.
IsWholeSecondsOf(sec, ms) ==
    IF ms >= 0 THEN sec * 1000 <= ms /\ ms < (sec + 1) * 1000
    ELSE sec * 1000 >= ms /\ ms > (sec - 1) * 1000

\* What C17 says of "500s", of "5m" and of the empty string.
TimeoutExamples ==
    /\ input.t = <<"5", "0", "0", "s">> => output.val = [err |-> FALSE, sec |-> 500]
    /\ input.t = <<"5", "m">> => output.val = [err |-> FALSE, sec |-> 300]
    /\ input.t = <<>> => output.val.err

WellFormedName(value) ==
    /\ \A i \in 1..Len(value) : value[i] \in {"a", "b", "z", "0", "1", "9", "-"}
    /\ Len(value) >= 1
    /\ value[1] \in {"a", "b", "z"}
    /\ value[Len(value)] # "-"
    /\ Len(value) <= 55

\* C18: the validator of name returns no error exactly for the names made
\* of lowercase letters, digits and hyphens that start with a letter, end
\* with a letter or a digit and have at most 55 characters: "a1-b" passes;
\* "A1-b", "1ab", "ab-" and a 56-character name of the pattern do not.
C18_NameValidator ==
    (input.fn = "validateName" /\ output.done) =>
        /\ (output.val = {}) <=> WellFormedName(input.value)
        /\ input.value = <<"a", "1", "-", "b">> => output.val = {}
        /\ input.value \in {<<"A", "1", "-", "b">>, <<"1", "a", "b">>, <<"a", "b", "-">>,
                            LongName(56, "a", "a", "b")}
               => output.val # {}

C18_Witness ==
    /\ input.fn = "validateName"
    /\ output.done
    /\ input.value = LongName(56, "a", "-", "b")
    /\ output.val = {"cannot be longer than 55 characters"}

(***************************************************************************)
(* The order of the scopes.                                                *)
(***************************************************************************)
\* xs is in the lexicographic order of the scope URIs.
InScopeOrder(xs) == \A i \in 1..Len(xs) - 1 : ScopeRank(xs[i]) <= ScopeRank(xs[i + 1])

\* xs and ys hold the same scopes, each as many times.
SameMultiset(xs, ys) ==
    \A i \in 1..Len(ScopeOrder) :
        Cardinality({j \in 1..Len(xs) : xs[j] = ScopeOrder[i]})
            = Cardinality({j \in 1..Len(ys) : ys[j] = ScopeOrder[i]})

\* C19: the scopes Create puts in the payload and the scopes Read stores
\* are the full forms of the scopes given, in lexicographic order; a list
\* with the same full forms, in whatever order and form, gives the same
\* two lists.
C19_ScopesSorted ==
    (input.fn = "scopes" /\ output.done) =>
        /\ InScopeOrder(output.val.payload)
        /\ SameMultiset(output.val.payload, CanonicalScopes(input.scopes))
        /\ InScopeOrder(output.val.state)
        /\ SameMultiset(output.val.state, CanonicalScopes(input.scopes))
        /\ \A other \in ScopeLists :
               SameMultiset(CanonicalScopes(other), CanonicalScopes(input.scopes)) =>
                   /\ CreateScopes(other) = output.val.payload
                   /\ ReadScopes(CanonicalScopes(other)) = output.val.state

C19_Witness ==
    /\ input.fn = "scopes"
    /\ output.done
    /\ input.scopes = <<ScopeOrder[4], "logging-write", "useraccounts-ro">>
    /\ output.val.payload = <<ScopeOrder[1], ScopeOrder[3], ScopeOrder[4]>>
    /\ output.val.state = output.val.payload

(***************************************************************************)
(* Submitting the mutating calls.                                          *)
(***************************************************************************)
\* C20: an entry point that returns the error the service gave when the
\* mutating call was submitted has submitted it maxAttempts times: 3 for
\* Create and Delete, 2 for Update.
C20_SubmissionRetried ==
    /\ (op = "Create" /\ ret = ErrSubmit) =>
           Cardinality(CallsAnswered(calls, "Clusters.Create", "error")) = 3
    /\ (op = "Update" /\ ret = ErrSubmit) =>
           Cardinality(CallsAnswered(calls, "Clusters.Patch", "error")) = 2
    /\ (op = "Delete" /\ ret = ErrSubmit) =>
           Cardinality(CallsAnswered(calls, "Clusters.Delete", "error")) = 3

(***************************************************************************)
(* References by name or by URI.                                           *)
(***************************************************************************)
\* What follows the last "/" of a reference, the reference itself when it
\* has no "/".
ShortName(ref) == IF Len(ref) = 0 THEN <<>> ELSE SubSeq(ref, Len(ref), Len(ref))

\* C21: extractLastResourceFromUri gives what follows the last "/" of its
\* input, the input itself when it has no "/"; so the network, subnetwork
\* and machine type of the payload Create builds are the same for a short
\* name and for a URI of the same resource.
C21_ShortNameOrUri ==
    (input.fn = "refs" /\ output.done) =>
        /\ extractLastResourceFromUri(input.network) = ShortName(input.network)
        /\ Len(input.network) = 1 => extractLastResourceFromUri(input.network) = input.network
        /\ output.val = CreateRefs(ShortName(input.network), ShortName(input.subnetwork),
                                   ShortName(input.machineType))
        /\ output.val = [network |-> ShortName(input.network),
                          subnetwork |-> ShortName(input.subnetwork),
                          machineType |-> ShortName(input.machineType)]

C21_Witness ==
    /\ input.fn = "refs"
    /\ output.done
    /\ input.network = <<"projects", "p", "global", "networks", "net-2">>
    /\ Len(input.subnetwork) > 1
    /\ Len(input.machineType) > 1
    /\ output.val = [network |-> <<"net-2">>, subnetwork |-> <<"sub-1">>,
                     machineType |-> <<"n1-highmem-2">>]

(***************************************************************************)
(* Update: the partial payload.                                            *)
(***************************************************************************)
\* C22: the payload of the Patch call holds labels exactly when labels
\* changed, the worker config exactly when the worker num_instances
\* changed and the secondary-worker config exactly when the preemptible
\* num_instances changed, each instance-group config with the desired
\* count and nothing else; when only labels changed the mask is "labels"
\* and the payload holds the labels alone.
C22_PayloadHoldsOnlyChanges ==
    (op = "Update" /\ patch.sent) =>
        /\ patch.labels = (IF LabelsAttr \in diff THEN <<req.labels>> ELSE <<>>)
        /\ patch.worker = (IF WorkerNumAttr \in diff THEN <<req.workers>> ELSE <<>>)
        /\ patch.secondary = (IF PreemptNumAttr \in diff THEN <<req.preempt>> ELSE <<>>)
        /\ (diff \cap EligibleAttrs = {LabelsAttr}) =>
               /\ patch.mask = "labels"
               /\ patch.worker = <<>>
               /\ patch.secondary = <<>>

C22_Witness ==
    /\ op = "Update"
    /\ diff = {LabelsAttr}
    /\ patch.sent
    /\ patch.mask = "labels"
    /\ patch.labels = <<{"env=prod"}>>
    /\ patch.worker = <<>>
    /\ patch.secondary = <<>>

(***************************************************************************)
(* Delete: the answers of Buckets.Delete.                                  *)
(***************************************************************************)
\* C23: Delete handles every answer of Buckets.Delete: after success or
\* 404 the cleanup has succeeded and Delete goes on to Clusters.Delete; a
\* rate-limit error is followed by another attempt, or by the error once
\* the time to retry is over; any other error, a googleapi error or not,
\* ends Delete with that error returned.
C23_BucketDeleteClassified ==
    op = "Delete" =>
        \A i \in CallsTo(calls, "Buckets.Delete") :
            /\ calls[i].res \in {"ok", "notfound"} => CallsTo(calls, "Clusters.Delete") # {}
            /\ calls[i].res = "ratelimit" =>
                   \/ i < Len(calls) /\ calls[i + 1].api = "Buckets.Delete"
                   \/ i = Len(calls) /\ ret = ErrBucketDelete
            /\ calls[i].res \in {"typedErr", "untypedErr"} =>
                   i = Len(calls) /\ ret = ErrBucketDelete

(***************************************************************************)
(* Read: the initialization actions.                                       *)
(***************************************************************************)
\* C24: when the answer of the service holds initialization actions, the
\* block Read makes holds them under initialization_action, in the order
\* of the answer, each with its executable file as script and its
\* execution timeout, decoded to seconds, as timeout_sec ("500s" as 500).
C24_ActionsStoredUnderTheirAttribute ==
    (/\ input.fn = "flattenClusterConfig"
     /\ output.done
     /\ output.val.kind = "ok"
     /\ Len(input.cfg.InitializationActions) > 0) =>
        LET nia == input.cfg.InitializationActions
            data == output.val.data
        IN /\ "initialization_action" \in DOMAIN data
           /\ Len(data["initialization_action"]) = Len(nia)
           /\ \A i \in 1..Len(nia) :
                  /\ data["initialization_action"][i]["script"] = nia[i].ExecutableFile
                  /\ nia[i].ExecutionTimeout = <<"5", "0", "0", "s">> =>
                         data["initialization_action"][i]["timeout_sec"] = 500

(***************************************************************************)
(* extractInitTimeout: numbers with a fraction.                            *)
(***************************************************************************)
\* t is a number with a point in it, followed by the name of a unit.
IsFractional(t) ==
    \E n \in 1..Len(t) :
        /\ SubSeq(t, n + 1, Len(t)) \in UnitNames
        /\ \A i \in 1..n : t[i] = "." \/ IsDigit(t[i])
        /\ \E i \in 1..n : t[i] = "."
        /\ \E i \in 1..n : IsDigit(t[i])

\* C25: extractInitTimeout returns an error when the number of the
\* duration string is not an integer ("1.5s"); it returns no seconds,
\* truncated or rounded, for such a string.
C25_FractionIsAnError ==
    (input.fn = "extractInitTimeout" /\ output.done /\ IsFractional(input.t)) =>
        output.val.err

(***************************************************************************)
(* Create: region "global" with a zone.                                    *)
(***************************************************************************)
\* C26: a Create with region "global" and a zone given in
\* gce_cluster_config passes the zone check: once the project is resolved
\* it calls Clusters.Create, and does not return 'zone is mandatory when
\* region is set to 'global''.
C26_GlobalWithZoneAccepted ==
    (/\ op = "Create"
     /\ req.region = GlobalRegion
     /\ ~NoZoneSupplied(req)
     /\ ret # ErrProject) =>
        /\ ret # ErrZoneMandatory
        /\ CallsTo(calls, "Clusters.Create") # {}

(***************************************************************************)
(* Delete: the staging bucket of a cluster that stays tracked.             *)
(***************************************************************************)
\* C27: while the id is stored and the service holds the cluster, the
\* auto-generated staging bucket of the cluster exists: Delete has not
\* removed the bucket of a cluster it leaves tracked.
C27_TrackedClusterKeepsBucket ==
    (id # "" /\ pc.status # "ABSENT" /\ pc.bucket = AutogenBucket) =>
        /\ BucketOf(bk, AutogenBucket).exists
        /\ op = "Delete" => CallsAnswered(calls, "Buckets.Delete", "ok") = {}

(***************************************************************************)
(* Read: a timeout that does not decode.                                   *)
(***************************************************************************)
\* C28: when Read fails because the execution timeout of an initialization
\* action of the answer does not decode, it returns the error and the
\* stored attributes name, region, labels and cluster_config are what they
\* were before.
C28_FailedReadStoresNothing ==
    (/\ input.fn = "read"
     /\ output.done
     /\ \E i \in 1..Len(input.cluster.Config.InitializationActions) :
            extractInitTimeout(input.cluster.Config.InitializationActions[i].ExecutionTimeout).err
     /\ input.cluster.Config.SoftwareConfig # Nil) =>
        /\ output.val.ret = ErrDuration
        /\ output.val.d = input.d
====
